---------------------------- MODULE Spec2Model ----------------------------
(***************************************************************************)
(* Result type-casting compiler of the ClickHouse connector                *)
(* (crates/ndc-clickhouse-core/src/sql/query_builder/typecasting.rs).      *)
(*                                                                         *)
(* Given a collection alias, a query request, the relationship map and the *)
(* server configuration, RowsetTypeString::new derives a nested cast-type  *)
(* description and into_cast_type renders it as a ClickHouse data type.    *)
(* The translation is a pure function; it is modelled by operators that    *)
(* follow the Rust code arm by arm, and by state machines that draw the    *)
(* inputs from bounded sets and apply the operators.                       *)
(*                                                                         *)
(* The configuration update of the command line tool                       *)
(* (crates/ndc-clickhouse-cli/src/main.rs, update_tables_config) is        *)
(* modelled as a state machine over the configuration file and the         *)
(* introspected database.                                                  *)
(***************************************************************************)
EXTENDS Integers, Sequences, FiniteSets, TLC

(***************************************************************************)
(* Option and Result                                                       *)
(***************************************************************************)
None == [tag |-> "None"]
Some(x) == [tag |-> "Some", v |-> x]
IsSome(o) == o.tag = "Some"

Ok(x) == [ok |-> TRUE, val |-> x]
Err(e) == [ok |-> FALSE, err |-> e]

(***************************************************************************)
(* ClickHouseDataType and Identifier (the type AST consumed by the code)   *)
(***************************************************************************)
Unquoted(s) == [kind |-> "Unquoted", name |-> s]
DoubleQuoted(s) == [kind |-> "DoubleQuoted", name |-> s]

Named(t) == [dt |-> t]
Nothing == Named("Nothing")
UInt32 == Named("UInt32")
UInt64 == Named("UInt64")
Float64 == Named("Float64")
String == Named("String")
NullableT(t) == [dt |-> "Nullable", inner |-> t]
ArrayT(t) == [dt |-> "Array", inner |-> t]
\* Tuple(Vec<(Option<Identifier>, ClickHouseDataType)>)
Member(id, t) == [ident |-> id, type |-> t]
TupleT(members) == [dt |-> "Tuple", members |-> members]
MapT(k, v) == [dt |-> "Map", key |-> k, value |-> v]

\* the type that stands for a tuple without members
EmptyMarker == MapT(Nothing, Nothing)

\* Display of an identifier
IdentifierToString(id) ==
    IF id.kind = "DoubleQuoted" THEN "\"" \o id.name \o "\"" ELSE id.name

\* Display of a data type, in ClickHouse's type syntax
RECURSIVE DataTypeToString(_)
RECURSIVE MembersToString(_, _)
MembersToString(members, i) ==
    IF i > Len(members) THEN ""
    ELSE (IF i > 1 THEN ", " ELSE "")
         \o (IF IsSome(members[i].ident)
             THEN IdentifierToString(members[i].ident.v) \o " " ELSE "")
         \o DataTypeToString(members[i].type)
         \o MembersToString(members, i + 1)
DataTypeToString(t) ==
    CASE t.dt = "Nullable" -> "Nullable(" \o DataTypeToString(t.inner) \o ")"
      [] t.dt = "Array" -> "Array(" \o DataTypeToString(t.inner) \o ")"
      [] t.dt = "Tuple" -> "Tuple(" \o MembersToString(t.members, 1) \o ")"
      [] t.dt = "Map" -> "Map(" \o DataTypeToString(t.key) \o ", "
                                \o DataTypeToString(t.value) \o ")"
      [] OTHER -> t.dt

(***************************************************************************)
(* ClickHouseTypeDefinition: Scalar, Nullable, Array, Object               *)
(***************************************************************************)
ScalarDef(t) == [td |-> "Scalar", data_type |-> t]
NullableDef(d) == [td |-> "Nullable", inner |-> d]
ArrayDef(d) == [td |-> "Array", element_type |-> d]
\* fields: the ordered field map, a sequence of [name, ident, def]
ObjectDef(n, fs) == [td |-> "Object", name |-> n, fields |-> fs]

\* position of a key in an ordered map, 0 when absent
RECURSIVE IndexOfName(_, _, _)
IndexOfName(entries, key, i) ==
    IF i > Len(entries) THEN 0
    ELSE IF entries[i].name = key THEN i
    ELSE IndexOfName(entries, key, i + 1)

AllNamed(members) == \A i \in 1..Len(members) : IsSome(members[i].ident)

RECURSIVE TypeDefinitionNew(_, _, _)
TypeDefinitionNew(data_type, namespace, separator) ==
    CASE data_type.dt = "Nullable" ->
            LET inner == TypeDefinitionNew(data_type.inner, namespace, separator)
            IN  IF inner.td = "Nullable" THEN inner ELSE NullableDef(inner)
      [] data_type.dt = "Array" ->
            ArrayDef(TypeDefinitionNew(data_type.inner, namespace, separator))
      [] data_type.dt = "Tuple" /\ Len(data_type.members) > 0
                                /\ AllNamed(data_type.members) ->
            ObjectDef(namespace,
                [i \in 1..Len(data_type.members) |->
                    LET m == data_type.members[i]
                    IN  [name |-> m.ident.v.name,
                         ident |-> m.ident.v,
                         def |-> TypeDefinitionNew(m.type,
                                    namespace \o separator \o m.ident.v.name,
                                    separator)]])
      [] OTHER -> ScalarDef(data_type)

from_table_column(data_type, column_alias, return_type, separator) ==
    TypeDefinitionNew(data_type, return_type \o separator \o column_alias,
                      separator)

RECURSIVE non_nullable(_)
non_nullable(type_definition) ==
    IF type_definition.td = "Nullable"
    THEN non_nullable(type_definition.inner)
    ELSE type_definition

RECURSIVE cast_type(_)
cast_type(type_definition) ==
    CASE type_definition.td = "Scalar" -> type_definition.data_type
      [] type_definition.td = "Nullable" ->
            NullableT(cast_type(type_definition.inner))
      [] type_definition.td = "Array" ->
            ArrayT(cast_type(type_definition.element_type))
      [] type_definition.td = "Object" ->
            TupleT([i \in 1..Len(type_definition.fields) |->
                Member(Some(type_definition.fields[i].ident),
                       cast_type(type_definition.fields[i].def))])


(***************************************************************************)
(* Aggregate functions                                                     *)
(***************************************************************************)
\* ClickHouseSingleColumnAggregateFunction::from_str
AggregateFunctionFromStr(name) ==
    CASE name = "max" -> Ok("Max")
      [] name = "min" -> Ok("Min")
      [] name = "sum" -> Ok("Sum")
      [] name = "avg" -> Ok("Avg")
      [] OTHER -> Err("UnknownFunctionName")

\* ClickHouseTypeDefinition::aggregate_functions: the list of
\* (function, result type) defined for a type definition
RECURSIVE aggregate_functions(_)
aggregate_functions(type_definition) ==
    CASE type_definition.td = "Nullable" ->
            aggregate_functions(type_definition.inner)
      [] type_definition.td = "Scalar"
            /\ type_definition.data_type \in {UInt32, UInt64} ->
            << <<"Max", type_definition.data_type>>,
               <<"Min", type_definition.data_type>>,
               <<"Sum", UInt64>>,
               <<"Avg", Float64>> >>
      [] type_definition.td = "Scalar"
            /\ type_definition.data_type = Float64 ->
            << <<"Max", Float64>>, <<"Min", Float64>>,
               <<"Sum", Float64>>, <<"Avg", Float64>> >>
      [] type_definition.td = "Scalar"
            /\ type_definition.data_type = String ->
            << <<"Max", String>>, <<"Min", String>> >>
      [] OTHER -> << >>

\* Iterator::find on the function list: position of the first entry of the
\* function, 0 when there is none
RECURSIVE FindFunction(_, _, _)
FindFunction(functions, f, i) ==
    IF i > Len(functions) THEN 0
    ELSE IF functions[i][1] = f THEN i
    ELSE FindFunction(functions, f, i + 1)

(***************************************************************************)
(* TypeStringError                                                         *)
(***************************************************************************)
UnknownTable(t) == [e |-> "UnknownTable", table |-> t]
UnknownTableType(t) == [e |-> "UnknownTableType", table |-> t]
UnknownColumn(t, c) == [e |-> "UnknownColumn", table |-> t, column |-> c]
UnknownAggregateFunction(t, c, d, f) ==
    [e |-> "UnknownAggregateFunction", table |-> t, column |-> c,
     data_type |-> d, function |-> f]
MissingRelationship(r) == [e |-> "MissingRelationship", relationship |-> r]
NestedFieldTypeMismatch(x, g) ==
    [e |-> "NestedFieldTypeMismatch", expected |-> x, got |-> g]
MissingNestedField(f, o) ==
    [e |-> "MissingNestedField", field_name |-> f, object_type |-> o]

(***************************************************************************)
(* The request: models::Query, Field, NestedField, Aggregate               *)
(***************************************************************************)
\* an IndexMap is a sequence of entries with distinct aliases
FieldEntry(a, f) == [alias |-> a, field |-> f]
AggregateEntry(a, g) == [alias |-> a, aggregate |-> g]
Query(fields, aggregates) == [fields |-> fields, aggregates |-> aggregates]
Column(c, fields) == [f |-> "Column", column |-> c, fields |-> fields]
Relationship(r, q) == [f |-> "Relationship", relationship |-> r, query |-> q]
NestedObject(fields) == [nf |-> "Object", fields |-> fields]
\* NestedArray { fields: Box<NestedField> }: the selector of the elements
NestedArray(element) == [nf |-> "Array", element |-> element]
StarCount == [agg |-> "StarCount"]
ColumnCount(c) == [agg |-> "ColumnCount", column |-> c]
SingleColumn(c, f) == [agg |-> "SingleColumn", column |-> c, function |-> f]

(***************************************************************************)
(* The cast-type fragments                                                 *)
(***************************************************************************)
RowsetTypeString(rows, aggregates) == [rows |-> rows, aggregates |-> aggregates]
AggregatesTypeString(aggregates) == [aggregates |-> aggregates]
RowTypeString(fields) == [fields |-> fields]
FtsRelationship(rowset) == [fts |-> "Relationship", rel |-> rowset]
FtsArray(inner) == [fts |-> "Array", inner |-> inner]
FtsObject(fields) == [fts |-> "Object", fields |-> fields]
FtsScalar(t) == [fts |-> "Scalar", inner |-> t]
\* an (alias, type) pair of a fragment
Typed(a, t) == [alias |-> a, t |-> t]

(***************************************************************************)
(* Lookups in the server configuration                                     *)
(***************************************************************************)
\* get_return_type reading the parameterized queries before the tables
get_return_type_QueriesFirst(table_alias, config) ==
    IF table_alias \in DOMAIN config.queries
    THEN Ok(config.queries[table_alias].return_type)
    ELSE IF table_alias \in DOMAIN config.tables
    THEN Ok(config.tables[table_alias].return_type)
    ELSE Err(UnknownTable(table_alias))

get_return_type(table_alias, config) ==
    IF table_alias \in DOMAIN config.tables
    THEN Ok(config.tables[table_alias].return_type)
    ELSE IF table_alias \in DOMAIN config.queries
    THEN Ok(config.queries[table_alias].return_type)
    ELSE Err(UnknownTable(table_alias))

get_column(column_alias, return_type, config) ==
    IF return_type \notin DOMAIN config.table_types
    THEN Err(UnknownTableType(return_type))
    ELSE IF column_alias \notin DOMAIN config.table_types[return_type].columns
    THEN Err(UnknownColumn(return_type, column_alias))
    ELSE Ok(config.table_types[return_type].columns[column_alias])

(***************************************************************************)
(* Building the fragments: the four `new` functions                        *)
(***************************************************************************)
RECURSIVE RowsetTypeString_new(_, _, _, _)
RECURSIVE RowTypeString_new(_, _, _, _)
RECURSIVE RowFieldsCollect(_, _, _, _, _)
RECURSIVE FieldTypeString_new(_, _, _, _)
RECURSIVE SubfieldsCollect(_, _, _, _, _, _)

\* `?` on a Result followed by a wrap in Ok: Ok(Wrap(result?)), one operator
\* for each wrapping constructor
OkRelationship(rowset) ==
    IF rowset.ok THEN Ok(FtsRelationship(rowset.val)) ELSE rowset
OkArray(underlying_typestring) ==
    IF underlying_typestring.ok THEN Ok(FtsArray(underlying_typestring.val))
    ELSE underlying_typestring
OkObject(subfields) ==
    IF subfields.ok THEN Ok(FtsObject(subfields.val)) ELSE subfields
OkRow(collected) ==
    IF collected.ok THEN Ok(RowTypeString(collected.val)) ELSE collected
OkAggregates(collected) ==
    IF collected.ok THEN Ok(AggregatesTypeString(collected.val)) ELSE collected

\* one step of collect::<Result<Vec<_>, _>>(): the item's error, else the
\* error of the rest, else the item in front of the rest
Collected(alias, item, rest) ==
    IF ~item.ok THEN item
    ELSE IF ~rest.ok THEN rest
    ELSE Ok(<<Typed(alias, item.val)>> \o rest.val)

\* a collect that pushes each item behind the rest
Collected_Reversed(alias, item, rest) ==
    IF ~item.ok THEN item
    ELSE IF ~rest.ok THEN rest
    ELSE Ok(rest.val \o <<Typed(alias, item.val)>>)

\* the SingleColumn arm once the column's type is known
FunctionResultType(table_alias, column_alias, column_type, type_definition, function) ==
    LET unknown == Err(UnknownAggregateFunction(table_alias, column_alias,
                                                column_type, function))
        aggregate_function == AggregateFunctionFromStr(function)
        functions == aggregate_functions(type_definition)
        found == FindFunction(functions, aggregate_function.val, 1)
    IN  IF ~aggregate_function.ok THEN unknown
        ELSE IF found = 0 THEN unknown
        ELSE Ok(functions[found][2])

\* the SingleColumn arm naming the table by its return type in the error
AggregateResultType_TypeName(table_alias, aggregate, config) ==
    IF aggregate.agg \in {"StarCount", "ColumnCount"}
    THEN Ok(UInt32)
    ELSE
    LET return_type == get_return_type(table_alias, config)
        column_type == get_column(aggregate.column, return_type.val, config)
    IN  IF ~return_type.ok THEN return_type
        ELSE IF ~column_type.ok THEN column_type
        ELSE FunctionResultType(return_type.val, aggregate.column,
                column_type.val,
                from_table_column(column_type.val, aggregate.column,
                    return_type.val, config.namespace_separator),
                aggregate.function)

\* the closure resolving the column of a column count before counting
AggregateResultType_CountLooksUp(table_alias, aggregate, config) ==
    IF aggregate.agg = "StarCount"
    THEN Ok(UInt32)
    ELSE
    LET return_type == get_return_type(table_alias, config)
        column_type == get_column(aggregate.column, return_type.val, config)
    IN  IF ~return_type.ok THEN return_type
        ELSE IF ~column_type.ok THEN column_type
        ELSE IF aggregate.agg = "ColumnCount" THEN Ok(UInt32)
        ELSE FunctionResultType(table_alias, aggregate.column,
                column_type.val,
                from_table_column(column_type.val, aggregate.column,
                    return_type.val, config.namespace_separator),
                aggregate.function)

\* the closure of AggregatesTypeString::new for one aggregate
AggregateResultType(table_alias, aggregate, config) ==
    IF aggregate.agg \in {"StarCount", "ColumnCount"}
    THEN Ok(UInt32)
    ELSE
    LET return_type == get_return_type(table_alias, config)
        column_type == get_column(aggregate.column, return_type.val, config)
    IN  IF ~return_type.ok THEN return_type
        ELSE IF ~column_type.ok THEN column_type
        ELSE FunctionResultType(table_alias, aggregate.column,
                column_type.val,
                from_table_column(column_type.val, aggregate.column,
                    return_type.val, config.namespace_separator),
                aggregate.function)

\* aggregates.iter().map(..).collect::<Result<Vec<_>, _>>() from entry i on:
\* the entries are taken in order and the first Err ends the iteration
RECURSIVE AggregatesCollect(_, _, _, _)
AggregatesCollect(table_alias, aggregates, config, i) ==
    IF i > Len(aggregates) THEN Ok(<< >>)
    ELSE Collected(aggregates[i].alias,
            AggregateResultType(table_alias, aggregates[i].aggregate, config),
            AggregatesCollect(table_alias, aggregates, config, i + 1))

AggregatesTypeString_new(table_alias, aggregates, config) ==
    OkAggregates(AggregatesCollect(table_alias, aggregates, config, 1))

\* the Column arm of the closure of RowTypeString::new
RowColumnType(table_alias, field, relationships, config) ==
    LET return_type == get_return_type(table_alias, config)
        column_type == get_column(field.column, return_type.val, config)
    IN  IF ~return_type.ok THEN return_type
        ELSE IF ~column_type.ok THEN column_type
        ELSE FieldTypeString_new(
                from_table_column(column_type.val, field.column,
                    return_type.val, config.namespace_separator),
                field.fields, relationships, config)

\* the error of a missing relationship, raised after the sub-query's own
MissingAfter(relationship, rowset) ==
    IF ~rowset.ok THEN rowset ELSE Err(MissingRelationship(relationship))

\* the Relationship arm reading the sub-query before the relationship lookup
RowFieldType_SubqueryFirst(table_alias, field, relationships, config) ==
    IF field.f = "Column"
    THEN RowColumnType(table_alias, field, relationships, config)
    ELSE IF field.relationship \in DOMAIN relationships
    THEN OkRelationship(RowsetTypeString_new(
            relationships[field.relationship].target_collection,
            field.query, relationships, config))
    ELSE MissingAfter(field.relationship,
            RowsetTypeString_new(table_alias, field.query, relationships,
                                 config))

\* the Relationship arm translating the sub-query on the parent collection
RowFieldType_ParentCollection(table_alias, field, relationships, config) ==
    IF field.f = "Column"
    THEN RowColumnType(table_alias, field, relationships, config)
    ELSE IF field.relationship \notin DOMAIN relationships
    THEN Err(MissingRelationship(field.relationship))
    ELSE OkRelationship(RowsetTypeString_new(table_alias, field.query,
                                             relationships, config))

\* the closure of RowTypeString::new for one field
RowFieldType(table_alias, field, relationships, config) ==
    IF field.f = "Column"
    THEN RowColumnType(table_alias, field, relationships, config)
    ELSE IF field.relationship \notin DOMAIN relationships
    THEN Err(MissingRelationship(field.relationship))
    ELSE OkRelationship(RowsetTypeString_new(
            relationships[field.relationship].target_collection,
            field.query, relationships, config))

\* the collect of RowTypeString::new pushing each field behind the rest
RowFieldsCollect_Reversed(table_alias, fields, relationships, config, i) ==
    IF i > Len(fields) THEN Ok(<< >>)
    ELSE Collected_Reversed(fields[i].alias,
            RowFieldType(table_alias, fields[i].field, relationships, config),
            RowFieldsCollect(table_alias, fields, relationships, config, i + 1))

\* fields.iter().map(..).collect::<Result<Vec<_>, _>>() from entry i on
RowFieldsCollect(table_alias, fields, relationships, config, i) ==
    IF i > Len(fields) THEN Ok(<< >>)
    ELSE Collected(fields[i].alias,
            RowFieldType(table_alias, fields[i].field, relationships, config),
            RowFieldsCollect(table_alias, fields, relationships, config, i + 1))

RowTypeString_new(table_alias, fields, relationships, config) ==
    OkRow(RowFieldsCollect(table_alias, fields, relationships, config, 1))

\* the rows of a query: fields.map(RowTypeString::new).transpose()
RowsOf(table_alias, query, relationships, config) ==
    IF IsSome(query.fields)
    THEN RowTypeString_new(table_alias, query.fields.v, relationships, config)
    ELSE Ok(None)

\* the aggregates of a query: aggregates.map(AggregatesTypeString::new)
\* .transpose()
AggregatesOf(table_alias, query, config) ==
    IF IsSome(query.aggregates)
    THEN AggregatesTypeString_new(table_alias, query.aggregates.v, config)
    ELSE Ok(None)

\* `?` on the first part, then on the second, then the rowset of the two
Assembled(query, first, second, rows, aggregates) ==
    IF ~first.ok THEN first
    ELSE IF ~second.ok THEN second
    ELSE Ok(RowsetTypeString(
            IF IsSome(query.fields) THEN Some(rows.val) ELSE None,
            IF IsSome(query.aggregates) THEN Some(aggregates.val) ELSE None))

\* RowsetTypeString::new building the aggregates before the rows
RowsetTypeString_new_AggregatesFirst(table_alias, query, relationships, config) ==
    LET rows == RowsOf(table_alias, query, relationships, config)
        aggregates == AggregatesOf(table_alias, query, config)
    IN  Assembled(query, aggregates, rows, rows, aggregates)

RowsetTypeString_new(table_alias, query, relationships, config) ==
    LET rows == RowsOf(table_alias, query, relationships, config)
        aggregates == AggregatesOf(table_alias, query, config)
    IN  Assembled(query, rows, aggregates, rows, aggregates)

\* the match of FieldTypeString::new on the definition as given, not unwrapped
MatchScrutinee_NoUnwrap(type_definition, selector) ==
    <<type_definition.td, selector.nf>>

\* the pair the match of FieldTypeString::new dispatches on
MatchScrutinee(type_definition, selector) ==
    <<non_nullable(type_definition).td, selector.nf>>

\* the closure of the Object arm rendering the unwrapped object in the error
SubfieldType_UnwrappedObject(type_definition, object_fields, field, relationships, config) ==
    IF field.f = "Column" THEN
        IF IndexOfName(object_fields, field.column, 1) = 0
        THEN Err(MissingNestedField(field.column,
                    DataTypeToString(cast_type(non_nullable(type_definition)))))
        ELSE FieldTypeString_new(
                object_fields[IndexOfName(object_fields, field.column, 1)].def,
                field.fields, relationships, config)
    ELSE IF field.relationship \notin DOMAIN relationships
    THEN Err(MissingRelationship(field.relationship))
    ELSE OkRelationship(RowsetTypeString_new(
            relationships[field.relationship].target_collection,
            field.query, relationships, config))

\* the closure of the Object arm for one subfield; object_fields is the field
\* map of the object, type_definition the definition FieldTypeString::new got
SubfieldType(type_definition, object_fields, field, relationships, config) ==
    IF field.f = "Column" THEN
        IF IndexOfName(object_fields, field.column, 1) = 0
        THEN Err(MissingNestedField(field.column,
                    DataTypeToString(cast_type(type_definition))))
        ELSE FieldTypeString_new(
                object_fields[IndexOfName(object_fields, field.column, 1)].def,
                field.fields, relationships, config)
    ELSE IF field.relationship \notin DOMAIN relationships
    THEN Err(MissingRelationship(field.relationship))
    ELSE OkRelationship(RowsetTypeString_new(
            relationships[field.relationship].target_collection,
            field.query, relationships, config))

\* subfield_selector.fields.iter().map(..).collect::<Result<_, _>>() from
\* entry i on
SubfieldsCollect(type_definition, object_fields, subfields, relationships, config, i) ==
    IF i > Len(subfields) THEN Ok(<< >>)
    ELSE Collected(subfields[i].alias,
            SubfieldType(type_definition, object_fields, subfields[i].field,
                         relationships, config),
            SubfieldsCollect(type_definition, object_fields, subfields,
                             relationships, config, i + 1))

\* the error of a mismatch arm
Mismatch(expected, got) ==
    Err(NestedFieldTypeMismatch(expected, DataTypeToString(cast_type(got))))

\* FieldTypeString::new rendering the unwrapped definition in a mismatch
FieldTypeString_new_GotUnwrapped(type_definition, fields, relationships, config) ==
    IF ~IsSome(fields) THEN Ok(FtsScalar(cast_type(type_definition))) ELSE
    LET arm == MatchScrutinee(type_definition, fields.v)
        definition == non_nullable(type_definition)
    IN  CASE arm = <<"Array", "Array">> ->
                OkArray(FieldTypeString_new(definition.element_type,
                            Some(fields.v.element), relationships, config))
          [] arm = <<"Object", "Object">> ->
                OkObject(SubfieldsCollect(type_definition, definition.fields,
                            fields.v.fields, relationships, config, 1))
          [] arm[2] = "Object" -> Mismatch("Object", definition)
          [] arm[2] = "Array" -> Mismatch("Array", definition)

FieldTypeString_new(type_definition, fields, relationships, config) ==
    IF ~IsSome(fields) THEN Ok(FtsScalar(cast_type(type_definition))) ELSE
    LET arm == MatchScrutinee(type_definition, fields.v)
        definition == non_nullable(type_definition)
    IN  CASE arm = <<"Array", "Array">> ->
                OkArray(FieldTypeString_new(definition.element_type,
                            Some(fields.v.element), relationships, config))
          [] arm = <<"Object", "Object">> ->
                OkObject(SubfieldsCollect(type_definition, definition.fields,
                            fields.v.fields, relationships, config, 1))
          [] arm = <<"Scalar", "Object">> -> Mismatch("Object", type_definition)
          [] arm = <<"Scalar", "Array">> -> Mismatch("Array", type_definition)
          [] arm = <<"Nullable", "Object">> -> Mismatch("Object", type_definition)
          [] arm = <<"Nullable", "Array">> -> Mismatch("Array", type_definition)
          [] arm = <<"Array", "Object">> -> Mismatch("Object", type_definition)
          [] arm = <<"Object", "Array">> -> Mismatch("Array", type_definition)

(***************************************************************************)
(* Rendering the fragments: the four `into_cast_type` functions            *)
(***************************************************************************)
RECURSIVE RowsetTypeString_into_cast_type(_)
RECURSIVE RowTypeString_into_cast_type(_)
RECURSIVE FieldTypeString_into_cast_type(_)

\* AggregatesTypeString::into_cast_type naming the members without quotes
AggregatesTypeString_into_cast_type_Unquoted(self) ==
    IF Len(self.aggregates) = 0
    THEN MapT(Nothing, Nothing)
    ELSE TupleT([i \in 1..Len(self.aggregates) |->
            Member(Some(Unquoted(self.aggregates[i].alias)),
                   self.aggregates[i].t)])

AggregatesTypeString_into_cast_type(self) ==
    IF Len(self.aggregates) = 0
    THEN MapT(Nothing, Nothing)
    ELSE TupleT([i \in 1..Len(self.aggregates) |->
            Member(Some(DoubleQuoted(self.aggregates[i].alias)),
                   self.aggregates[i].t)])

\* RowTypeString::into_cast_type without the test for an empty row
RowTypeString_into_cast_type_NoMarker(self) ==
    TupleT([i \in 1..Len(self.fields) |->
        Member(Some(DoubleQuoted(self.fields[i].alias)),
               FieldTypeString_into_cast_type(self.fields[i].t))])

RowTypeString_into_cast_type(self) ==
    IF Len(self.fields) = 0
    THEN MapT(Nothing, Nothing)
    ELSE TupleT([i \in 1..Len(self.fields) |->
            Member(Some(DoubleQuoted(self.fields[i].alias)),
                   FieldTypeString_into_cast_type(self.fields[i].t))])

FieldTypeString_into_cast_type(self) ==
    CASE self.fts = "Relationship" -> RowsetTypeString_into_cast_type(self.rel)
      [] self.fts = "Array" ->
            ArrayT(FieldTypeString_into_cast_type(self.inner))
      [] self.fts = "Object" ->
            TupleT([i \in 1..Len(self.fields) |->
                Member(Some(DoubleQuoted(self.fields[i].alias)),
                       FieldTypeString_into_cast_type(self.fields[i].t))])
      [] self.fts = "Scalar" -> self.inner

\* RowsetTypeString::into_cast_type with double-quoted envelope keys
RowsetTypeString_into_cast_type_QuotedKeys(self) ==
    CASE ~IsSome(self.rows) /\ ~IsSome(self.aggregates) ->
            MapT(Nothing, Nothing)
      [] ~IsSome(self.rows) /\ IsSome(self.aggregates) ->
            TupleT(<<Member(Some(DoubleQuoted("aggregates")),
                        AggregatesTypeString_into_cast_type(self.aggregates.v))>>)
      [] IsSome(self.rows) /\ ~IsSome(self.aggregates) ->
            TupleT(<<Member(Some(DoubleQuoted("rows")),
                        ArrayT(RowTypeString_into_cast_type(self.rows.v)))>>)
      [] IsSome(self.rows) /\ IsSome(self.aggregates) ->
            TupleT(<<Member(Some(DoubleQuoted("rows")),
                        ArrayT(RowTypeString_into_cast_type(self.rows.v))),
                     Member(Some(DoubleQuoted("aggregates")),
                        AggregatesTypeString_into_cast_type(self.aggregates.v))>>)

\* RowsetTypeString::into_cast_type with the members of the envelope swapped
RowsetTypeString_into_cast_type_AggregatesFirst(self) ==
    CASE ~IsSome(self.rows) /\ ~IsSome(self.aggregates) ->
            MapT(Nothing, Nothing)
      [] ~IsSome(self.rows) /\ IsSome(self.aggregates) ->
            TupleT(<<Member(Some(Unquoted("aggregates")),
                        AggregatesTypeString_into_cast_type(self.aggregates.v))>>)
      [] IsSome(self.rows) /\ ~IsSome(self.aggregates) ->
            TupleT(<<Member(Some(Unquoted("rows")),
                        ArrayT(RowTypeString_into_cast_type(self.rows.v)))>>)
      [] IsSome(self.rows) /\ IsSome(self.aggregates) ->
            TupleT(<<Member(Some(Unquoted("aggregates")),
                        AggregatesTypeString_into_cast_type(self.aggregates.v)),
                     Member(Some(Unquoted("rows")),
                        ArrayT(RowTypeString_into_cast_type(self.rows.v)))>>)

RowsetTypeString_into_cast_type(self) ==
    CASE ~IsSome(self.rows) /\ ~IsSome(self.aggregates) ->
            MapT(Nothing, Nothing)
      [] ~IsSome(self.rows) /\ IsSome(self.aggregates) ->
            TupleT(<<Member(Some(Unquoted("aggregates")),
                        AggregatesTypeString_into_cast_type(self.aggregates.v))>>)
      [] IsSome(self.rows) /\ ~IsSome(self.aggregates) ->
            TupleT(<<Member(Some(Unquoted("rows")),
                        ArrayT(RowTypeString_into_cast_type(self.rows.v)))>>)
      [] IsSome(self.rows) /\ IsSome(self.aggregates) ->
            TupleT(<<Member(Some(Unquoted("rows")),
                        ArrayT(RowTypeString_into_cast_type(self.rows.v))),
                     Member(Some(Unquoted("aggregates")),
                        AggregatesTypeString_into_cast_type(self.aggregates.v))>>)

(***************************************************************************)
(* The schema snapshot and the relationship map the requests run against   *)
(***************************************************************************)
Point == TupleT(<<Member(Some(Unquoted("lat")), Float64),
                  Member(Some(Unquoted("lon")), Float64)>>)
Pixel == TupleT(<<Member(Some(Unquoted("x")), UInt32),
                  Member(Some(Unquoted("y")), UInt32)>>)

EventsColumns ==
    "id" :> UInt64 @@ "tags" :> ArrayT(String) @@ "name" :> NullableT(String)
    @@ "loc" :> Point @@ "pts" :> ArrayT(Pixel)
UsersColumns ==
    "id" :> UInt32 @@ "email" :> String @@ "loc" :> Point

\* ServerConfig: two tables with a type, one table whose return type has no
\* entry in table_types, one parameterized query returning events, and one
\* parameterized query under the alias of a table
Config ==
    [namespace_separator |-> ".",
     tables |-> ("events" :> [return_type |-> "events"]
                 @@ "users" :> [return_type |-> "users"]
                 @@ "ghost" :> [return_type |-> "ghost_type"]),
     queries |-> ("q_events" :> [return_type |-> "events"]
                  @@ "users" :> [return_type |-> "events"]),
     table_types |-> ("events" :> [columns |-> EventsColumns]
                      @@ "users" :> [columns |-> UsersColumns])]

\* BTreeMap<RelationshipName, Relationship>; "self" is a cycle of the schema
Relationships ==
    "owner" :> [target_collection |-> "users"]
    @@ "self" :> [target_collection |-> "events"]

(***************************************************************************)
(* Bounded sets of requests                                                *)
(***************************************************************************)
\* entries of a generated mapping; for a top-level query, fields plus aggregates
MaxFields == 2
\* relationship sub-queries nested below a top-level relationship field
MaxDepth == 1

AliasPool == <<"a", "b", "c", "d">>
\* the aliases of a mapping of k entries: in pool order or in reverse
AliasOrders(k) ==
    {[i \in 1..k |-> AliasPool[i]], [i \in 1..k |-> AliasPool[k + 1 - i]]}

FieldMappings(S, k) ==
    {[i \in 1..k |-> FieldEntry(al[i], fs[i])] :
        al \in AliasOrders(k), fs \in [1..k -> S]}
AggregateMappings(S, k) ==
    {[i \in 1..k |-> AggregateEntry(al[i], gs[i])] :
        al \in AliasOrders(k), gs \in [1..k -> S]}

Aggregates ==
    {StarCount, ColumnCount("nope"), SingleColumn("id", "max"),
     SingleColumn("id", "sum"), SingleColumn("email", "sum"),
     SingleColumn("id", "bogus")}

\* sub-queries of a relationship field
BaseQueries ==
    {Query(None, None),
     Query(Some(<< >>), None),
     Query(None, Some(<< >>)),
     Query(Some(<< >>), Some(<< >>)),
     Query(Some(<<FieldEntry("b", Column("email", None)),
                  FieldEntry("a", Column("id", None))>>),
           Some(<<AggregateEntry("b", SingleColumn("id", "sum")),
                  AggregateEntry("a", StarCount)>>)),
     Query(Some(<<FieldEntry("b", Column("nope", None)),
                  FieldEntry("a", Column("id", None))>>),
           Some(<<AggregateEntry("a", SingleColumn("email", "avg"))>>))}

\* a chain of d relationship fields, each one level of the request
RECURSIVE DeepQuery(_)
DeepQuery(d) ==
    IF d = 0
    THEN Query(Some(<<FieldEntry("a", Column("id", None))>>), None)
    ELSE Query(Some(<<FieldEntry("b", Relationship("self", DeepQuery(d - 1))),
                      FieldEntry("a", Column("tags", None))>>),
               Some(<<AggregateEntry("a", StarCount)>>))

\* a sub-query that fails when it is examined
FailingQuery == Query(Some(<<FieldEntry("a", Column("nope", None))>>), None)

TopFields ==
    {Column("id", None),
     Column("email", None),
     Column("loc", None),
     Column("loc", Some(NestedObject(<< >>))),
     Column("loc", Some(NestedObject(
        <<FieldEntry("b", Column("lon", None)),
          FieldEntry("a", Column("lat", None))>>))),
     Column("loc", Some(NestedObject(
        <<FieldEntry("a", Column("zz", None)),
          FieldEntry("b", Relationship("nope", FailingQuery))>>))),
     Column("loc", Some(NestedObject(
        <<FieldEntry("a", Column("lat", None)),
          FieldEntry("b", Relationship("nope", FailingQuery))>>))),
     Column("pts", Some(NestedArray(NestedObject(
        <<FieldEntry("b", Column("y", None)),
          FieldEntry("a", Relationship("owner", DeepQuery(0)))>>)))),
     Relationship("nope", FailingQuery),
     Relationship("self", DeepQuery(MaxDepth))}
    \cup {Relationship("owner", q) : q \in BaseQueries}

FieldOptions(n) ==
    IF n = 0 THEN {None, Some(<< >>)}
    ELSE {Some(m) : m \in FieldMappings(TopFields, n)}
AggregateOptions(n) ==
    IF n = 0 THEN {None, Some(<< >>)}
    ELSE {Some(m) : m \in AggregateMappings(Aggregates, n)}

\* the request {fields: {id: column(id), tags: column(tags)}}
ScenarioQuery ==
    Query(Some(<<FieldEntry("id", Column("id", None)),
                 FieldEntry("tags", Column("tags", None))>>), None)

\* the sizes <<fields, aggregates>> of a top-level query
QuerySizes ==
    {nn \in (0..MaxFields) \X (0..MaxFields) : nn[1] + nn[2] <= MaxFields}

\* collection aliases of a request: tables, a parameterized query, a table
\* without a type, and a name the configuration does not know
CollectionNames == {"events", "users", "q_events", "ghost", "nowhere"}

(***************************************************************************)
(* Translation of one request                                              *)
(***************************************************************************)
VARIABLES
    table_alias,      \* the collection alias of the request
    query,            \* the request
    rowset,           \* None, or Some(result of RowsetTypeString::new)
    cast,             \* None, or Some(the rendered cast type)
    type_definition,  \* the definition given to FieldTypeString::new
    fields,           \* the nested selector given to it, an Option
    field_type,       \* None, or Some(result of FieldTypeString::new)
    field_cast,       \* None, or Some(the rendered cast type of the field)
    stack,            \* the calls of a translation in progress, innermost first
    outcome,          \* None while it runs, then Some(Ok or the error)
    again,            \* None, or Some(result of a second translation)
    again_cast,       \* None, or Some(the cast type it rendered)
    other,            \* None, or Some(result of translating another request)
    config_file,      \* the configuration file: None, or Some(its text)
    schema_file,      \* the schema file next to it: None, or Some(its text)
    table_infos,      \* what introspecting the database returns now
    last,             \* None, or Some(record of the last update run)
    before,           \* None, or Some(record of the run right before it)
    edits             \* how many times the file was edited by hand

vars == <<table_alias, query, rowset, cast,
          type_definition, fields, field_type, field_cast, stack, outcome,
          again, again_cast, other,
          config_file, schema_file, table_infos, last, before, edits>>
rowset_vars == <<table_alias, query, rowset, cast>>
field_vars == <<type_definition, fields, field_type, field_cast>>
walk_vars == <<stack, outcome>>
twice_vars == <<again, again_cast, other>>
cli_vars == <<config_file, schema_file, table_infos, last, before, edits>>

\* no configuration directory is involved in a translation
NoUpdate ==
    /\ config_file = None
    /\ schema_file = None
    /\ table_infos = << >>
    /\ last = None
    /\ before = None
    /\ edits = 0

Init ==
    /\ type_definition = None
    /\ fields = None
    /\ field_type = None
    /\ field_cast = None
    /\ table_alias \in CollectionNames
    /\ \/ query = ScenarioQuery
       \/ \E nn \in QuerySizes :
            \E f \in FieldOptions(nn[1]), g \in AggregateOptions(nn[2]) :
                query = Query(f, g)
    /\ rowset = None
    /\ cast = None
    /\ stack = << >>
    /\ outcome = None
    /\ again = None
    /\ again_cast = None
    /\ other = None
    /\ NoUpdate

\* RowsetTypeString::new on the request
New ==
    /\ rowset = None
    /\ rowset' = Some(RowsetTypeString_new(table_alias, query, Relationships,
                                           Config))
    /\ UNCHANGED <<table_alias, query, cast>>
    /\ UNCHANGED field_vars
    /\ UNCHANGED walk_vars
    /\ UNCHANGED twice_vars
    /\ UNCHANGED cli_vars

\* into_cast_type on the fragment the translation produced
IntoCastType ==
    /\ IsSome(rowset)
    /\ rowset.v.ok
    /\ cast = None
    /\ cast' = Some(RowsetTypeString_into_cast_type(rowset.v.val))
    /\ UNCHANGED <<table_alias, query, rowset>>
    /\ UNCHANGED field_vars
    /\ UNCHANGED walk_vars
    /\ UNCHANGED twice_vars
    /\ UNCHANGED cli_vars

Next == New \/ IntoCastType

Spec == Init /\ [][Next]_vars

(***************************************************************************)
(* Translation of one column with a nested selector                        *)
(***************************************************************************)
\* wrappers (Nullable, Array, Tuple) of a generated column type, and of a
\* generated selector (Array, Object)
MaxNest == 2

RECURSIVE RawTypesAt(_)
RawTypesAt(d) ==
    IF d = 0 THEN {String, UInt32}
    ELSE LET below == RawTypesAt(d - 1)
         IN  below
             \cup {NullableT(t) : t \in below}
             \cup {ArrayT(t) : t \in below}
             \cup {TupleT(<<Member(Some(Unquoted("lat")), t),
                            Member(Some(Unquoted("lon")), String)>>) :
                        t \in below}

\* subfields without a selector of their own
LeafSubfields ==
    {Column("lat", None), Column("zz", None),
     Relationship("nope", FailingQuery)}

RECURSIVE SelectorsAt(_)
SelectorsAt(d) ==
    IF d = 0
    THEN UNION {{NestedObject(m) : m \in FieldMappings(LeafSubfields, k)} :
                    k \in 0..MaxFields}
    ELSE LET below == SelectorsAt(d - 1)
         IN  below
             \cup {NestedArray(s) : s \in below}
             \cup {NestedObject(<<FieldEntry("b", Column("lat", Some(s))),
                                  FieldEntry("a", Relationship("owner",
                                                    DeepQuery(0)))>>) :
                        s \in below}

InitField ==
    /\ table_alias = None
    /\ query = None
    /\ rowset = None
    /\ cast = None
    /\ \E t \in RawTypesAt(MaxNest) :
         type_definition = from_table_column(t, "col", "events",
                                             Config.namespace_separator)
    /\ fields \in {None} \cup {Some(s) : s \in SelectorsAt(MaxNest)}
    /\ field_type = None
    /\ field_cast = None
    /\ stack = << >>
    /\ outcome = None
    /\ again = None
    /\ again_cast = None
    /\ other = None
    /\ NoUpdate

\* FieldTypeString::new on the column's definition and selector
FieldNew ==
    /\ field_type = None
    /\ field_type' = Some(FieldTypeString_new(type_definition, fields,
                                              Relationships, Config))
    /\ UNCHANGED <<type_definition, fields, field_cast>>
    /\ UNCHANGED rowset_vars
    /\ UNCHANGED walk_vars
    /\ UNCHANGED twice_vars
    /\ UNCHANGED cli_vars

\* into_cast_type on the field's fragment
FieldIntoCastType ==
    /\ IsSome(field_type)
    /\ field_type.v.ok
    /\ field_cast = None
    /\ field_cast' = Some(FieldTypeString_into_cast_type(field_type.v.val))
    /\ UNCHANGED <<type_definition, fields, field_type>>
    /\ UNCHANGED rowset_vars
    /\ UNCHANGED walk_vars
    /\ UNCHANGED twice_vars
    /\ UNCHANGED cli_vars

NextField == FieldNew \/ FieldIntoCastType

SpecField == InitField /\ [][NextField]_vars

(***************************************************************************)
(* The translation call by call: the recursion Rowset -> Row -> Field ->   *)
(* Rowset with its calls on a stack, the innermost call first              *)
(***************************************************************************)
\* calls above this nesting are not made
MaxLevel == 12

\* RowsetTypeString::new(table, query) at a nesting level
RowsetCall(table, q, level) ==
    [fn |-> "Rowset", table |-> table, query |-> q, level |-> level]
\* RowTypeString::new(table, fields) with the fields still to iterate
RowCall(table, m, level) ==
    [fn |-> "Row", table |-> table, row_fields |-> m, level |-> level]
\* AggregatesTypeString::new(table, aggregates)
AggregatesCall(table, g, level) ==
    [fn |-> "Aggregates", table |-> table, aggregates |-> g, level |-> level]
\* FieldTypeString::new(type_definition, fields)
FieldCall(definition, selector, level) ==
    [fn |-> "Field", definition |-> definition, selector |-> selector,
     level |-> level]
\* the Object arm of FieldTypeString::new with the subfields still to iterate
SubfieldsCall(definition, m, level) ==
    [fn |-> "Subfields", definition |-> definition, subfields |-> m,
     level |-> level]

\* the call a relationship field makes when the walk stays on its own level
\* of the request and moves along the relationship map only
RelationshipCall_SameLevel(field, level) ==
    RowsetCall(Relationships[field.relationship].target_collection,
               Query(Some(<<FieldEntry("a", field)>>), None), level)

\* the call a relationship field makes: the sub-query on the target
RelationshipCall(field, level) ==
    RowsetCall(Relationships[field.relationship].target_collection,
               field.query, level)

\* the rest of the calls go on, or the translation returns Ok
Continue(rest) ==
    /\ stack' = rest
    /\ outcome' = IF Len(rest) = 0 THEN Some(Ok("done")) ELSE outcome

\* `?` on an error: every pending call is left
Abort(error) ==
    /\ stack' = << >>
    /\ outcome' = Some(error)

Top == Head(stack)
Pending(fn) ==
    /\ Len(stack) > 0
    /\ Top.fn = fn
    /\ Top.level <= MaxLevel

\* RowsetTypeString::new: the rows, then the aggregates
WalkRowset ==
    /\ Pending("Rowset")
    /\ Continue(
        (IF IsSome(Top.query.fields)
         THEN <<RowCall(Top.table, Top.query.fields.v, Top.level + 1)>>
         ELSE << >>)
        \o (IF IsSome(Top.query.aggregates)
            THEN <<AggregatesCall(Top.table, Top.query.aggregates.v,
                                  Top.level + 1)>>
            ELSE << >>)
        \o Tail(stack))
    /\ UNCHANGED <<rowset_vars, field_vars, twice_vars, cli_vars>>

\* one iteration of RowTypeString::new: the next field of the row
WalkRow ==
    /\ Pending("Row")
    /\ IF Len(Top.row_fields) = 0 THEN Continue(Tail(stack)) ELSE
       LET field == Top.row_fields[1].field
           rest == <<RowCall(Top.table, Tail(Top.row_fields), Top.level)>>
                   \o Tail(stack)
           return_type == get_return_type(Top.table, Config)
           column_type == get_column(field.column, return_type.val, Config)
       IN  IF field.f = "Column"
           THEN IF ~return_type.ok THEN Abort(return_type)
                ELSE IF ~column_type.ok THEN Abort(column_type)
                ELSE Continue(<<FieldCall(
                        from_table_column(column_type.val, field.column,
                            return_type.val, Config.namespace_separator),
                        field.fields, Top.level + 1)>> \o rest)
           ELSE IF field.relationship \notin DOMAIN Relationships
                THEN Abort(Err(MissingRelationship(field.relationship)))
                ELSE Continue(<<RelationshipCall(field, Top.level + 1)>>
                              \o rest)
    /\ UNCHANGED <<rowset_vars, field_vars, twice_vars, cli_vars>>

\* AggregatesTypeString::new, which calls none of the others
WalkAggregates ==
    /\ Pending("Aggregates")
    /\ LET result == AggregatesTypeString_new(Top.table, Top.aggregates, Config)
       IN  IF result.ok THEN Continue(Tail(stack)) ELSE Abort(result)
    /\ UNCHANGED <<rowset_vars, field_vars, twice_vars, cli_vars>>

\* FieldTypeString::new: a leaf, an element, the subfields, or a mismatch
WalkField ==
    /\ Pending("Field")
    /\ IF ~IsSome(Top.selector) THEN Continue(Tail(stack)) ELSE
       LET arm == MatchScrutinee(Top.definition, Top.selector.v)
           definition == non_nullable(Top.definition)
       IN  CASE arm = <<"Array", "Array">> ->
                    Continue(<<FieldCall(definition.element_type,
                                    Some(Top.selector.v.element),
                                    Top.level + 1)>> \o Tail(stack))
             [] arm = <<"Object", "Object">> ->
                    Continue(<<SubfieldsCall(Top.definition,
                                    Top.selector.v.fields, Top.level)>>
                             \o Tail(stack))
             [] OTHER -> Abort(Mismatch(arm[2], Top.definition))
    /\ UNCHANGED <<rowset_vars, field_vars, twice_vars, cli_vars>>

\* one iteration of the Object arm: the next subfield
WalkSubfields ==
    /\ Pending("Subfields")
    /\ IF Len(Top.subfields) = 0 THEN Continue(Tail(stack)) ELSE
       LET field == Top.subfields[1].field
           rest == <<SubfieldsCall(Top.definition, Tail(Top.subfields),
                                   Top.level)>> \o Tail(stack)
           object_fields == non_nullable(Top.definition).fields
           found == IndexOfName(object_fields, field.column, 1)
       IN  IF field.f = "Column"
           THEN IF found = 0
                THEN Abort(Err(MissingNestedField(field.column,
                            DataTypeToString(cast_type(Top.definition)))))
                ELSE Continue(<<FieldCall(object_fields[found].def,
                                    field.fields, Top.level + 1)>> \o rest)
           ELSE IF field.relationship \notin DOMAIN Relationships
                THEN Abort(Err(MissingRelationship(field.relationship)))
                ELSE Continue(<<RelationshipCall(field, Top.level + 1)>>
                              \o rest)
    /\ UNCHANGED <<rowset_vars, field_vars, twice_vars, cli_vars>>

\* requests of a walk: chains of relationships along the cycle of the
\* relationship map, the sub-queries, and each field alone
WalkQueries ==
    {DeepQuery(d) : d \in 0..(MaxDepth + 1)}
    \cup BaseQueries
    \cup {Query(Some(<<FieldEntry("a", f)>>), None) : f \in TopFields}
    \cup {Query(Some(<<FieldEntry("b", f),
                       FieldEntry("a", Relationship("self", DeepQuery(1)))>>),
                Some(<<AggregateEntry("a", g)>>)) :
            f \in TopFields, g \in Aggregates}

InitWalk ==
    /\ table_alias \in CollectionNames
    /\ query \in WalkQueries
    /\ rowset = None
    /\ cast = None
    /\ type_definition = None
    /\ fields = None
    /\ field_type = None
    /\ field_cast = None
    /\ stack = <<RowsetCall(table_alias, query, 1)>>
    /\ outcome = None
    /\ again = None
    /\ again_cast = None
    /\ other = None
    /\ NoUpdate

NextWalk ==
    WalkRowset \/ WalkRow \/ WalkAggregates \/ WalkField \/ WalkSubfields

\* a translation is one synchronous call: it runs until it returns
SpecWalk == InitWalk /\ [][NextWalk]_vars /\ WF_vars(NextWalk)

(***************************************************************************)
(* Two translations of one request, with the translation of another        *)
(* request before, between or after them                                   *)
(***************************************************************************)
\* the other requests: <<collection alias, query>>
OtherRequests ==
    {"events", "users"} \X {ScenarioQuery, FailingQuery}

InitTwice ==
    /\ table_alias \in CollectionNames
    /\ query \in WalkQueries
    /\ rowset = None
    /\ cast = None
    /\ type_definition = None
    /\ fields = None
    /\ field_type = None
    /\ field_cast = None
    /\ stack = << >>
    /\ outcome = None
    /\ again = None
    /\ again_cast = None
    /\ other = None
    /\ NoUpdate

\* RowsetTypeString::new on the same arguments, once more, from what the
\* result of another translation has become
NewAgain_Reusing ==
    /\ again = None
    /\ again' = IF IsSome(other) THEN other
                ELSE Some(RowsetTypeString_new(table_alias, query,
                                               Relationships, Config))
    /\ UNCHANGED <<again_cast, other>>
    /\ UNCHANGED <<rowset_vars, field_vars, walk_vars, cli_vars>>

\* RowsetTypeString::new on the same arguments, once more
NewAgain ==
    /\ again = None
    /\ again' = Some(RowsetTypeString_new(table_alias, query, Relationships,
                                          Config))
    /\ UNCHANGED <<again_cast, other>>
    /\ UNCHANGED <<rowset_vars, field_vars, walk_vars, cli_vars>>

\* into_cast_type on the fragment of the second translation
IntoCastTypeAgain ==
    /\ IsSome(again)
    /\ again.v.ok
    /\ again_cast = None
    /\ again_cast' = Some(RowsetTypeString_into_cast_type(again.v.val))
    /\ UNCHANGED <<again, other>>
    /\ UNCHANGED <<rowset_vars, field_vars, walk_vars, cli_vars>>

\* RowsetTypeString::new on another request with the same configuration
NewOther ==
    /\ other = None
    /\ \E r \in OtherRequests :
        other' = Some(RowsetTypeString_new(r[1], r[2], Relationships, Config))
    /\ UNCHANGED <<again, again_cast>>
    /\ UNCHANGED <<rowset_vars, field_vars, walk_vars, cli_vars>>

NextTwice == New \/ IntoCastType \/ NewAgain \/ IntoCastTypeAgain \/ NewOther

SpecTwice == InitTwice /\ [][NextTwice]_vars

(***************************************************************************)
(* Configuration update of the command line tool                           *)
(* (crates/ndc-clickhouse-cli/src/main.rs): the database is introspected,  *)
(* the old configuration file is read, a new configuration is computed     *)
(* from both and written when it differs.                                  *)
(***************************************************************************)
\* BTreeMap<String, _>: a function from its keys; collecting pairs keeps the
\* last value given for a key
EmptyMap == << >>

RECURSIVE CollectMap(_)
CollectMap(pairs) ==
    IF Len(pairs) = 0 THEN EmptyMap
    ELSE (pairs[Len(pairs)][1] :> pairs[Len(pairs)][2])
         @@ CollectMap(SubSeq(pairs, 1, Len(pairs) - 1))

\* every key of the maps of the model, in the order of String
NameOrder == <<"a", "b", "gone", "mine", "q", "s_a">>

\* the keys of a map in the order the map iterates over them
Keys(map) == SelectSeq(NameOrder, LAMBDA k : k \in DOMAIN map)

\* TableInfo and ColumnInfo, as the introspection returns them
ColumnInfo(column_name, data_type, is_in_primary_key) ==
    [column_name |-> column_name, data_type |-> data_type,
     is_in_primary_key |-> is_in_primary_key]

TableInfo(table_name, table_schema, table_comment, primary_key, view_definition, columns) ==
    [table_name |-> table_name, table_schema |-> table_schema,
     table_comment |-> table_comment, primary_key |-> primary_key,
     view_definition |-> view_definition, columns |-> columns]

\* ReturnType
Definition(columns) == [kind |-> "definition", columns |-> columns]
TableReference(table_name) ==
    [kind |-> "table_reference", table_name |-> table_name]
QueryReference(query_name) ==
    [kind |-> "query_reference", query_name |-> query_name]

PrimaryKey(name, columns) == [name |-> name, key_columns |-> columns]

TableConfigFile(name, schema, comment, primary_key, arguments, return_type) ==
    [name |-> name, schema |-> schema, comment |-> comment,
     primary_key |-> primary_key, arguments |-> arguments,
     return_type |-> return_type]

ParameterizedQueryConfigFile(file, return_type) ==
    [file |-> file, return_type |-> return_type]

ServerConfigFile(schema, tables, queries) ==
    [schema |-> schema, tables |-> tables, queries |-> queries]

CONFIG_FILE_NAME == "configuration.json"
CONFIG_SCHEMA_FILE_NAME == "configuration.schema.json"

\* the view definition with one parameter, and the parameters parsed from a
\* view definition (none when it has none or does not parse)
ParameterizedView == "SELECT * FROM t WHERE id = {p: UInt32}"
ViewArguments(view_definition) ==
    IF view_definition = ParameterizedView THEN ("p" :> "UInt32")
    ELSE EmptyMap

\* the data types ClickHouseDataType::from_str accepts, among those of the
\* model
ParsesAsDataType(data_type) == data_type \in {"UInt32", "String"}

\* the sql files present in the configuration directory; all of them parse
SqlFiles == {"q.sql"}

\* get_return_type_columns
get_return_type_columns(table) ==
    CollectMap([i \in 1..Len(table.columns) |->
                  <<table.columns[i].column_name, table.columns[i].data_type>>])

\* Iterator::find over the entries of the old tables, in map order
FirstOldTable(tables, keys, table) ==
    IF \E i \in 1..Len(keys) :
            /\ tables[keys[i]].name = table.table_name
            /\ tables[keys[i]].schema = table.table_schema
    THEN LET i == CHOOSE i \in 1..Len(keys) :
                    /\ tables[keys[i]].name = table.table_name
                    /\ tables[keys[i]].schema = table.table_schema
                    /\ \A j \in 1..(i - 1) :
                        ~(/\ tables[keys[j]].name = table.table_name
                          /\ tables[keys[j]].schema = table.table_schema)
         IN Some(<<keys[i], tables[keys[i]]>>)
    ELSE None

\* get_old_table_config: the old entry with this table's name and schema
get_old_table_config(table, old_config) ==
    IF IsSome(old_config)
    THEN FirstOldTable(old_config.v.tables, Keys(old_config.v.tables), table)
    ELSE None

\* get_table_alias without the old alias: the default alias always
get_table_alias_Default(table, old_table) ==
    IF table.table_schema = "default" THEN table.table_name
    ELSE table.table_schema \o "_" \o table.table_name

\* get_table_alias
get_table_alias(table, old_table) ==
    IF IsSome(old_table) THEN old_table.v[1]
    ELSE IF table.table_schema = "default" THEN table.table_name
    ELSE table.table_schema \o "_" \o table.table_name

\* Iterator::find over the introspected tables
FindTableInfo(introspection, schema, name) ==
    IF \E i \in 1..Len(introspection) :
            /\ introspection[i].table_schema = schema
            /\ introspection[i].table_name = name
    THEN LET i == CHOOSE i \in 1..Len(introspection) :
                    /\ introspection[i].table_schema = schema
                    /\ introspection[i].table_name = name
                    /\ \A j \in 1..(i - 1) :
                        ~(/\ introspection[j].table_schema = schema
                          /\ introspection[j].table_name = name)
         IN Some(introspection[i])
    ELSE None

\* the TableReference arm of get_table_return_type: the old entry of the
\* referenced table, then the introspected table that has the schema of the
\* referenced entry and the name of THIS table's entry
KeptTableReference(table_config, new_columns, old_config, introspection) ==
    LET table_name == table_config.return_type.table_name
        referenced_table_config ==
            IF IsSome(old_config) /\ table_name \in DOMAIN old_config.v.tables
            THEN Some(old_config.v.tables[table_name]) ELSE None
        referenced_table_info ==
            IF ~IsSome(referenced_table_config) THEN None
            ELSE IF referenced_table_config.v.return_type.kind # "definition"
            THEN None
            ELSE FindTableInfo(introspection,
                               referenced_table_config.v.schema,
                               table_config.name)
        referenced_table_columns ==
            IF IsSome(referenced_table_info)
            THEN Some(get_return_type_columns(referenced_table_info.v))
            ELSE None
    IN IF /\ IsSome(referenced_table_columns)
          /\ referenced_table_columns.v = new_columns
       THEN Some(TableReference(table_name))
       ELSE None

\* the QueryReference arm of get_table_return_type
KeptQueryReference(table_config, new_columns, old_config) ==
    LET query_name == table_config.return_type.query_name
    IN IF ~(IsSome(old_config) /\ query_name \in DOMAIN old_config.v.queries)
       THEN None
       ELSE IF old_config.v.queries[query_name].return_type.kind # "definition"
       THEN None
       ELSE IF old_config.v.queries[query_name].return_type.columns = new_columns
       THEN Some(QueryReference(query_name))
       ELSE None

\* the old return type that get_table_return_type keeps, if any
OldReturnType(new_columns, old_table, old_config, introspection) ==
    IF ~IsSome(old_table) THEN None
    ELSE IF old_table.v[2].return_type.kind = "definition" THEN None
    ELSE IF old_table.v[2].return_type.kind = "table_reference"
    THEN KeptTableReference(old_table.v[2], new_columns, old_config,
                            introspection)
    ELSE KeptQueryReference(old_table.v[2], new_columns, old_config)

UnwrapOrDefinition(old_return_type, new_columns) ==
    IF IsSome(old_return_type) THEN old_return_type.v
    ELSE Definition(new_columns)

\* get_table_return_type
get_table_return_type(table, old_table, old_config, introspection) ==
    UnwrapOrDefinition(
        OldReturnType(get_return_type_columns(table), old_table, old_config,
                      introspection),
        get_return_type_columns(table))

\* the primary key of the entry of a table
PrimaryKeyOf(table) ==
    IF IsSome(table.primary_key)
    THEN Some(PrimaryKey(table.primary_key.v,
              LET key == SelectSeq(table.columns,
                                   LAMBDA c : c.is_in_primary_key)
              IN [i \in 1..Len(key) |-> key[i].column_name]))
    ELSE None

\* the closure that update_tables_config maps over the introspected tables:
\* the alias and the entry of one table
TableEntry(table, old_table, old_config, introspection) ==
    <<get_table_alias(table, old_table),
      TableConfigFile(table.table_name, table.table_schema,
                      table.table_comment, PrimaryKeyOf(table),
                      ViewArguments(table.view_definition),
                      get_table_return_type(table, old_table, old_config,
                                            introspection))>>

TableEntries(introspection, old_config) ==
    [i \in 1..Len(introspection) |->
        TableEntry(introspection[i],
                   get_old_table_config(introspection[i], old_config),
                   old_config, introspection)]

\* the configuration update_tables_config computes
NewConfig(introspection, old_config) ==
    ServerConfigFile(CONFIG_SCHEMA_FILE_NAME,
                     CollectMap(TableEntries(introspection, old_config)),
                     IF IsSome(old_config) THEN old_config.v.queries
                     ELSE EmptyMap)

\* the first Some of a sequence of options
RECURSIVE FirstSome(_, _)
FirstSome(options, i) ==
    IF i > Len(options) THEN None
    ELSE IF IsSome(options[i]) THEN options[i]
    ELSE FirstSome(options, i + 1)

ValidationError(error, subject, target) ==
    [error |-> error, subject |-> subject, target |-> target]

\* what the validation finds wrong with a return type, for a table or a
\* query of the new configuration
ReturnTypeError(config, subject, return_type) ==
    IF return_type.kind = "table_reference"
    THEN IF return_type.table_name \notin DOMAIN config.tables
         THEN Some(ValidationError("Orphan reference", subject,
                                   return_type.table_name))
         ELSE IF config.tables[return_type.table_name].return_type.kind
                    = "definition"
         THEN None
         ELSE Some(ValidationError("Invalid reference", subject,
                                   return_type.table_name))
    ELSE IF return_type.kind = "query_reference"
    THEN IF return_type.query_name \notin DOMAIN config.queries
         THEN Some(ValidationError("Orphan reference", subject,
                                   return_type.query_name))
         ELSE IF config.queries[return_type.query_name].return_type.kind
                    = "definition"
         THEN None
         ELSE Some(ValidationError("Invalid reference", subject,
                                   return_type.query_name))
    ELSE IF \A c \in DOMAIN return_type.columns :
                ParsesAsDataType(return_type.columns[c])
    THEN None
    ELSE Some(ValidationError("Unable to parse data type", subject, subject))

\* what the validation finds wrong with a query of the new configuration
QueryError(config, query_alias) ==
    IF query_alias \in DOMAIN config.tables
    THEN Some(ValidationError("Name collision", query_alias, query_alias))
    ELSE IF IsSome(ReturnTypeError(config, query_alias,
                                   config.queries[query_alias].return_type))
    THEN ReturnTypeError(config, query_alias,
                         config.queries[query_alias].return_type)
    ELSE IF config.queries[query_alias].file \notin SqlFiles
    THEN Some(ValidationError("Error reading", query_alias,
                              config.queries[query_alias].file))
    ELSE None

\* the validation that follows the writing: the first error, tables first
Validated(first_error) ==
    IF IsSome(first_error) THEN Err(first_error.v) ELSE Ok("validated")

Validate(config) ==
    Validated(FirstSome(
        [i \in 1..Len(Keys(config.tables)) |->
            ReturnTypeError(config, Keys(config.tables)[i],
                config.tables[Keys(config.tables)[i]].return_type)]
        \o [i \in 1..Len(Keys(config.queries)) |->
            QueryError(config, Keys(config.queries)[i])], 1))

\* The text of the configuration file: a JSON object is the set of its
\* <<key, value>> members.  An entry without comment, without primary key or
\* without arguments is written without that member, and read back with
\* the member's default.
Garbage == [kind |-> "garbage"]

TableToJson(t) ==
    {<<"name", t.name>>, <<"schema", t.schema>>,
     <<"return_type", t.return_type>>}
    \cup (IF IsSome(t.comment) THEN {<<"comment", t.comment.v>>} ELSE {})
    \cup (IF IsSome(t.primary_key)
          THEN {<<"primary_key", t.primary_key.v>>} ELSE {})
    \cup (IF DOMAIN t.arguments # {}
          THEN {<<"arguments", t.arguments>>} ELSE {})

HasMember(json, key) == \E m \in json : m[1] = key
MemberOf(json, key) == (CHOOSE m \in json : m[1] = key)[2]
OptionalMember(json, key) ==
    IF HasMember(json, key) THEN Some(MemberOf(json, key)) ELSE None

TableFromJson(json) ==
    TableConfigFile(MemberOf(json, "name"), MemberOf(json, "schema"),
                    OptionalMember(json, "comment"),
                    OptionalMember(json, "primary_key"),
                    IF HasMember(json, "arguments")
                    THEN MemberOf(json, "arguments") ELSE EmptyMap,
                    MemberOf(json, "return_type"))

\* serde_json::to_string_pretty of a configuration
to_string_pretty(config) ==
    [kind |-> "json", schema |-> config.schema,
     tables |-> [k \in DOMAIN config.tables |->
                    TableToJson(config.tables[k])],
     queries |-> config.queries]

\* serde_json::from_str of the text of the file
from_str(text) ==
    IF text.kind # "json" THEN Err("Error parsing " \o CONFIG_FILE_NAME)
    ELSE Ok(ServerConfigFile(text.schema,
                             [k \in DOMAIN text.tables |->
                                TableFromJson(text.tables[k])],
                             text.queries))

\* the old configuration as update_tables_config reads it: None when the
\* file is not found, an error when it cannot be read or parsed
ReadOldConfig(file, readable) ==
    IF ~readable THEN Err("Error reading " \o CONFIG_FILE_NAME)
    ELSE IF ~IsSome(file) THEN Ok(None)
    ELSE IF from_str(file.v).ok THEN Ok(Some(from_str(file.v).val))
    ELSE from_str(file.v)

\* the record of one run of update_tables_config
Run(old_config, introspection, entries, config, wrote, result) ==
    [old_config |-> old_config, introspection |-> introspection,
     entries |-> entries, config |-> config, wrote |-> wrote,
     result |-> result]

\* the condition under which the files are written
MustWrite(old_config, config) ==
    ~IsSome(old_config) \/ old_config.v # config

\* The databases of the model: up to MaxTables tables out of three, in any
\* order; one of them comes with one column or with two.
MaxTables == 2
MaxEdits == 1

Cols1 == <<ColumnInfo("id", "UInt32", TRUE)>>
Cols2 == <<ColumnInfo("id", "UInt32", TRUE),
           ColumnInfo("name", "String", FALSE)>>

\* <<table name, schema>>
TableIdentities == {<<"a", "default">>, <<"b", "default">>, <<"a", "s">>}

IntrospectedTable(identity, columns) ==
    TableInfo(identity[1], identity[2],
              IF identity[1] = "b" THEN Some("people") ELSE None,
              IF identity[1] = "a" THEN Some("id") ELSE None,
              IF identity = <<"a", "s">> THEN ParameterizedView ELSE "",
              columns)

TablePool ==
    {IntrospectedTable(<<"a", "default">>, Cols1),
     IntrospectedTable(<<"b", "default">>, Cols1),
     IntrospectedTable(<<"b", "default">>, Cols2),
     IntrospectedTable(<<"a", "s">>, Cols2)}

Introspections ==
    {ts \in UNION {[1..n -> TablePool] : n \in 0..MaxTables} :
        \A i, j \in 1..Len(ts) :
            (/\ ts[i].table_name = ts[j].table_name
             /\ ts[i].table_schema = ts[j].table_schema) => i = j}

\* What a user does to the configuration file by hand: give a table another
\* alias, make the return type of a table a reference to another table or
\* to a query, add a parameterized query.
CustomAliases == {"mine", "b"}

Renamed(config, alias, custom) ==
    [config EXCEPT !.tables =
        (custom :> config.tables[alias])
        @@ [k \in (DOMAIN config.tables) \ {alias} |-> config.tables[k]]]

Referring(config, alias, return_type) ==
    [config EXCEPT !.tables[alias].return_type = return_type]

WithQuery(config, query_alias, return_type) ==
    [config EXCEPT !.queries =
        (query_alias :> ParameterizedQueryConfigFile("q.sql", return_type))
        @@ config.queries]

HandEdits(config) ==
    {Renamed(config, k, c) :
        k \in DOMAIN config.tables,
        c \in CustomAliases \ (DOMAIN config.tables)}
    \cup {Referring(config, k[1], TableReference(k[2])) :
            k \in {kk \in (DOMAIN config.tables)
                            \X ((DOMAIN config.tables) \cup {"gone"}) :
                        kk[1] # kk[2]}}
    \cup {Referring(config, k, QueryReference("q")) :
            k \in DOMAIN config.tables}
    \cup {WithQuery(config, "q",
                     Definition(get_return_type_columns(
                        IntrospectedTable(<<"a", "default">>, Cols1))))}

InitUpdate ==
    /\ table_alias = "events"
    /\ query = ScenarioQuery
    /\ rowset = None
    /\ cast = None
    /\ type_definition = None
    /\ fields = None
    /\ field_type = None
    /\ field_cast = None
    /\ stack = << >>
    /\ outcome = None
    /\ again = None
    /\ again_cast = None
    /\ other = None
    /\ config_file = None
    /\ schema_file = None
    /\ table_infos \in Introspections
    /\ last = None
    /\ before = None
    /\ edits = 0

translation_vars == <<rowset_vars, field_vars, walk_vars, twice_vars>>

\* update_tables_config stopped by an error before it computes anything:
\* the introspection fails, or the file cannot be read or parsed
UpdateFails ==
    /\ \E introspected \in BOOLEAN :
        /\ ~introspected \/ ~ReadOldConfig(config_file, introspected).ok
        /\ last' = Some(Run(None, table_infos, << >>, None, FALSE,
                        IF ~introspected THEN Err("Error introspecting")
                        ELSE ReadOldConfig(config_file, introspected)))
    /\ before' = None
    /\ UNCHANGED <<config_file, schema_file, table_infos, edits>>
    /\ UNCHANGED translation_vars

\* what update_tables_config does once the old configuration is read
Updated(old_config, config) ==
    /\ config_file' = IF MustWrite(old_config, config)
                      THEN Some(to_string_pretty(config)) ELSE config_file
    /\ schema_file' = IF MustWrite(old_config, config)
                      THEN Some(CONFIG_SCHEMA_FILE_NAME) ELSE schema_file
    /\ last' = Some(Run(old_config, table_infos,
                        TableEntries(table_infos, old_config), Some(config),
                        MustWrite(old_config, config), Validate(config)))

\* update_tables_config on the database and the file as they are
UpdateTablesConfig ==
    /\ ReadOldConfig(config_file, TRUE).ok
    /\ LET old_config == ReadOldConfig(config_file, TRUE).val
       IN Updated(old_config, NewConfig(table_infos, old_config))
    /\ before' = IF IsSome(last) /\ IsSome(last.v.config) THEN last ELSE None
    /\ UNCHANGED <<table_infos, edits>>
    /\ UNCHANGED translation_vars

\* a sequence without its i-th element
Without(ts, i) == SubSeq(ts, 1, i - 1) \o SubSeq(ts, i + 1, Len(ts))

\* one table is created, dropped or altered
ChangedByOne(ts, us) ==
    \/ \E i \in 1..Len(ts) : us = Without(ts, i)
    \/ \E i \in 1..Len(us) : ts = Without(us, i)
    \/ /\ Len(ts) = Len(us)
       /\ \E i \in 1..Len(ts) :
            /\ ts[i] # us[i]
            /\ ts[i].table_name = us[i].table_name
            /\ ts[i].table_schema = us[i].table_schema
            /\ \A j \in 1..Len(ts) : j # i => ts[j] = us[j]

\* the database changes between two runs
DatabaseChanges ==
    /\ \E ts \in Introspections :
        /\ ChangedByOne(table_infos, ts)
        /\ table_infos' = ts
    /\ last' = None
    /\ before' = None
    /\ UNCHANGED <<config_file, schema_file, edits>>
    /\ UNCHANGED translation_vars

\* the configuration file is edited by hand between two runs
EditConfig ==
    /\ edits < MaxEdits
    /\ IsSome(config_file)
    /\ from_str(config_file.v).ok
    /\ \E edited \in HandEdits(from_str(config_file.v).val) :
        config_file' = Some(to_string_pretty(edited))
    /\ edits' = edits + 1
    /\ last' = None
    /\ before' = None
    /\ UNCHANGED <<schema_file, table_infos>>
    /\ UNCHANGED translation_vars

\* the configuration file is removed, or damaged, between two runs
SpoilConfig ==
    /\ edits < MaxEdits
    /\ IsSome(config_file)
    /\ \E spoiled \in {None, Some(Garbage)} :
        /\ spoiled # config_file
        /\ config_file' = spoiled
    /\ edits' = edits + 1
    /\ last' = None
    /\ before' = None
    /\ UNCHANGED <<schema_file, table_infos>>
    /\ UNCHANGED translation_vars

NextUpdate ==
    UpdateTablesConfig \/ UpdateFails \/ DatabaseChanges \/ EditConfig
    \/ SpoilConfig

SpecUpdate == InitUpdate /\ [][NextUpdate]_vars

(***************************************************************************)
(* Reading a request and its cast type side by side                        *)
(***************************************************************************)
Translated == IsSome(rowset)
Rendered == IsSome(cast)

\* the aliases of a request mapping, in request order
Aliases(m) == [i \in 1..Len(m) |-> m[i].alias]

\* stands for a part of a cast type that is not where the request puts it
Malformed == Named("Malformed")

MemberType(c, i) ==
    IF c.dt = "Tuple" /\ i <= Len(c.members) THEN c.members[i].type
    ELSE Malformed
ElementType(c) == IF c.dt = "Array" THEN c.inner ELSE Malformed

\* the names of a tuple's members, in order
MemberNames(c) ==
    IF c.dt = "Tuple" /\ AllNamed(c.members)
    THEN [i \in 1..Len(c.members) |-> c.members[i].ident.v.name]
    ELSE <<"?">>

\* the row type and the aggregate type inside the cast type of a rowset
RowsCastOf(q, c) == ElementType(MemberType(c, 1))
AggregatesCastOf(q, c) == MemberType(c, IF IsSome(q.fields) THEN 2 ELSE 1)

\* a place of the request that has a mapping, or is a rowset, with the part of
\* the cast type produced for it
Site(kind, q, aliases, c) ==
    [kind |-> kind, has_rows |-> IsSome(q.fields),
     has_aggregates |-> IsSome(q.aggregates), aliases |-> aliases, cast |-> c,
     depth |-> 0]
Deeper(sites) == {[s EXCEPT !.depth = @ + 1] : s \in sites}

RECURSIVE RowsetSites(_, _)
RECURSIVE MappingSites(_, _)
RECURSIVE SelectorSites(_, _)

SelectorSites(selector, c) ==
    IF selector.nf = "Array"
    THEN SelectorSites(selector.element, ElementType(c))
    ELSE {Site("object", Query(None, None), Aliases(selector.fields), c)}
         \cup Deeper(MappingSites(selector.fields, c))

MappingSites(m, c) ==
    UNION {LET field == m[i].field
               part == MemberType(c, i)
           IN  IF field.f = "Relationship"
               THEN RowsetSites(field.query, part)
               ELSE IF IsSome(field.fields)
               THEN SelectorSites(field.fields.v, part)
               ELSE {} :
           i \in 1..Len(m)}

RowsetSites(q, c) ==
    {Site("rowset", q, << >>, c)}
    \cup (IF IsSome(q.fields)
          THEN {Site("row", q, Aliases(q.fields.v), RowsCastOf(q, c))}
               \cup Deeper(MappingSites(q.fields.v, RowsCastOf(q, c)))
          ELSE {})
    \cup (IF IsSome(q.aggregates)
          THEN {Site("aggregates", q, Aliases(q.aggregates.v),
                     AggregatesCastOf(q, c))}
          ELSE {})

\* the sites of the request of the current state, once its type is rendered
Sites == IF Rendered THEN RowsetSites(query, cast.v) ELSE {}

(***************************************************************************)
(* C1: the rendered type of every rowset follows the presence table: no    *)
(* rows and no aggregates give Map(Nothing, Nothing); aggregates alone     *)
(* give a tuple of the one member aggregates; rows alone give a tuple of   *)
(* the one member rows, an Array; both give rows then aggregates.          *)
(***************************************************************************)
PresenceTable ==
    \A s \in Sites :
        s.kind = "rowset" =>
            CASE ~s.has_rows /\ ~s.has_aggregates -> s.cast = EmptyMarker
              [] ~s.has_rows /\ s.has_aggregates ->
                    MemberNames(s.cast) = <<"aggregates">>
              [] s.has_rows /\ ~s.has_aggregates ->
                    /\ MemberNames(s.cast) = <<"rows">>
                    /\ s.cast.members[1].type.dt = "Array"
              [] s.has_rows /\ s.has_aggregates ->
                    /\ MemberNames(s.cast) = <<"rows", "aggregates">>
                    /\ s.cast.members[1].type.dt = "Array"

\* a rendered request with fields and aggregates, the envelope has both
PresenceTableWitness ==
    /\ Rendered
    /\ IsSome(query.fields) /\ IsSome(query.aggregates)
    /\ Len(query.fields.v) > 0 /\ Len(query.aggregates.v) > 0
    /\ MemberNames(cast.v) = <<"rows", "aggregates">>

(***************************************************************************)
(* C2: the empty-tuple substitution at every nesting level: an Object      *)
(* selector without subfields renders as Map(Nothing, Nothing), and no     *)
(* rendered cast type holds a Tuple without members.                       *)
(***************************************************************************)
RECURSIVE HasEmptyTuple(_)
HasEmptyTuple(t) ==
    CASE t.dt = "Tuple" ->
            \/ Len(t.members) = 0
            \/ \E i \in 1..Len(t.members) : HasEmptyTuple(t.members[i].type)
      [] t.dt \in {"Array", "Nullable"} -> HasEmptyTuple(t.inner)
      [] t.dt = "Map" -> HasEmptyTuple(t.key) \/ HasEmptyTuple(t.value)
      [] OTHER -> FALSE

NoEmptyTuple ==
    /\ \A s \in Sites :
        s.kind = "object" /\ s.aliases = << >> => s.cast = EmptyMarker
    /\ Rendered => ~HasEmptyTuple(cast.v)

(***************************************************************************)
(* C3: a row shape without fields and an aggregate shape without           *)
(* aggregates render as Map(Nothing, Nothing), a non-empty one as a Tuple, *)
(* in the top-level rowset and in every rowset of a relationship field.    *)
(***************************************************************************)
EmptyShapesUseMarker ==
    \A s \in Sites :
        s.kind \in {"row", "aggregates"} =>
            IF s.aliases = << >>
            THEN s.cast = EmptyMarker
            ELSE s.cast.dt = "Tuple" /\ Len(s.cast.members) > 0

\* rendered: an empty aggregate shape at the top and an empty row shape in the
\* rowset of a relationship field
EmptyShapesWitness ==
    /\ \E s \in Sites : /\ s.kind = "row" /\ s.depth > 0
                        /\ s.aliases = << >> /\ s.cast = EmptyMarker
    /\ \E s \in Sites : /\ s.kind = "aggregates" /\ s.depth = 0
                        /\ s.aliases = << >> /\ s.cast = EmptyMarker

(***************************************************************************)
(* C4: field order: the aliases of every output row tuple, nested object   *)
(* tuple and aggregate tuple are the aliases of the request mapping, in    *)
(* the same order, at every depth.                                         *)
(***************************************************************************)
CastAliases(c) == IF c = EmptyMarker THEN << >> ELSE MemberNames(c)

FieldOrder ==
    \A s \in Sites :
        s.kind \in {"row", "object", "aggregates"} =>
            CastAliases(s.cast) = s.aliases

\* rendered: a row of two fields in the order b, a, one of them an object of
\* two subfields in the order b, a
FieldOrderWitness ==
    /\ Rendered
    /\ IsSome(query.fields)
    /\ Aliases(query.fields.v) = <<"b", "a">>
    /\ \E s \in Sites : /\ s.kind = "object" /\ s.aliases = <<"b", "a">>
                        /\ MemberNames(s.cast) = <<"b", "a">>
    /\ \E s \in Sites : /\ s.kind = "row" /\ s.depth = 0
                        /\ MemberNames(s.cast) = <<"b", "a">>

(***************************************************************************)
(* Translating parts of a request on their own                             *)
(***************************************************************************)
TranslateAlone(table, q) ==
    RowsetTypeString_new(table, q, Relationships, Config)
FieldAlone(definition, selector) ==
    FieldTypeString_new(definition, Some(selector), Relationships, Config)

\* the results of the items of a query, each translated as the only item of
\* the query, in traversal order: the fields, then the aggregates
ItemResults(table, q) ==
    (IF IsSome(q.fields)
     THEN [i \in 1..Len(q.fields.v) |->
            TranslateAlone(table, Query(Some(<<q.fields.v[i]>>), None))]
     ELSE << >>)
    \o (IF IsSome(q.aggregates)
        THEN [i \in 1..Len(q.aggregates.v) |->
                TranslateAlone(table, Query(None, Some(<<q.aggregates.v[i]>>)))]
        ELSE << >>)

\* the results of the subfields of an Object selector, each as the only subfield
SubfieldResults(definition, m) ==
    [i \in 1..Len(m) |-> FieldAlone(definition, NestedObject(<<m[i]>>))]

\* the first failing item, 0 when every item succeeds
FirstFailure(results) ==
    IF \A i \in 1..Len(results) : results[i].ok THEN 0
    ELSE CHOOSE i \in 1..Len(results) :
            ~results[i].ok /\ \A j \in 1..(i - 1) : results[j].ok

\* the whole fails exactly when an item fails, with the error of the first one
FailsAsFirst(results, whole) ==
    IF FirstFailure(results) = 0 THEN whole.ok
    ELSE whole = Err(results[FirstFailure(results)].err)

RECURSIVE FirstErrorInQuery(_, _, _)
RECURSIVE FirstErrorInSelector(_, _)

\* the rule for a selector on a column of the given definition, and below it
FirstErrorInSelector(definition, selector) ==
    LET inner == non_nullable(definition)
    IN  IF selector.nf = "Array"
        THEN inner.td = "Array" =>
                FirstErrorInSelector(inner.element_type, selector.element)
        ELSE inner.td = "Object" =>
            /\ FailsAsFirst(SubfieldResults(definition, selector.fields),
                            FieldAlone(definition, selector))
            /\ \A i \in 1..Len(selector.fields) :
                LET field == selector.fields[i].field
                IN  IF field.f = "Relationship"
                    THEN field.relationship \in DOMAIN Relationships =>
                        LET target == Relationships[field.relationship].target_collection
                        IN  FirstErrorInQuery(target, field.query,
                                TranslateAlone(target, field.query))
                    ELSE LET found == IndexOfName(inner.fields, field.column, 1)
                         IN  found # 0 /\ IsSome(field.fields) =>
                                FirstErrorInSelector(inner.fields[found].def,
                                                     field.fields.v)

\* the rule for a query whose translation gave `whole`, and below it
FirstErrorInQuery(table, q, whole) ==
    /\ FailsAsFirst(ItemResults(table, q), whole)
    /\ IsSome(q.fields) =>
        \A i \in 1..Len(q.fields.v) :
            LET field == q.fields.v[i].field
            IN  IF field.f = "Relationship"
                THEN field.relationship \in DOMAIN Relationships =>
                    LET target == Relationships[field.relationship].target_collection
                    IN  FirstErrorInQuery(target, field.query,
                                          TranslateAlone(target, field.query))
                ELSE
                    LET return_type == get_return_type(table, Config)
                        column_type ==
                            IF return_type.ok
                            THEN get_column(field.column, return_type.val, Config)
                            ELSE return_type
                    IN  column_type.ok /\ IsSome(field.fields) =>
                            FirstErrorInSelector(
                                from_table_column(column_type.val, field.column,
                                    return_type.val, Config.namespace_separator),
                                field.fields.v)

(***************************************************************************)
(* C5: the first error of the depth-first traversal aborts the whole       *)
(* translation: it fails, without a cast type, exactly when an item fails, *)
(* and the error is that of the first failing item in traversal order      *)
(* (fields in request order, the rows before the aggregates), at any depth.*)
(***************************************************************************)
FirstErrorAborts ==
    Translated =>
        /\ FirstErrorInQuery(table_alias, query, rowset.v)
        /\ ~rowset.v.ok => cast = None

\* a failed translation of a request with two items that fail with different
\* errors when taken alone
FirstErrorWitness ==
    /\ Translated
    /\ ~rowset.v.ok
    /\ LET results == ItemResults(table_alias, query)
       IN  /\ Len(results) = 2
           /\ ~results[1].ok /\ ~results[2].ok
           /\ results[1].err # results[2].err
           /\ rowset.v.err = results[1].err

(***************************************************************************)
(* Reading one column and its selector                                     *)
(***************************************************************************)
FieldTranslated == IsSome(field_type)

\* the shape of a definition below its Nullable wrappers
RECURSIVE Shape(_)
Shape(definition) ==
    IF definition.td = "Nullable" THEN Shape(definition.inner)
    ELSE definition.td

\* the rendered type of the definition FieldTypeString::new was given
RenderedDefinition == DataTypeToString(cast_type(type_definition))

IllegalPairs ==
    {<<"Scalar", "Object">>, <<"Scalar", "Array">>,
     <<"Array", "Object">>, <<"Object", "Array">>}

(***************************************************************************)
(* C6: a selector whose shape does not match the shape of the column fails *)
(* with NestedFieldTypeMismatch, for the four illegal pairs; expected is   *)
(* the selector's shape and got the rendered type of the column's          *)
(* definition. A selector on a scalar column never succeeds.               *)
(***************************************************************************)
MismatchDetection ==
    FieldTranslated /\ IsSome(fields) =>
        /\ <<Shape(type_definition), fields.v.nf>> \in IllegalPairs =>
                field_type.v = Err(NestedFieldTypeMismatch(fields.v.nf,
                                                           RenderedDefinition))
        /\ Shape(type_definition) = "Scalar" => ~field_type.v.ok

\* an Object selector on a nullable array column was refused
MismatchWitness ==
    /\ FieldTranslated /\ IsSome(fields)
    /\ type_definition.td = "Nullable"
    /\ Shape(type_definition) = "Array"
    /\ fields.v.nf = "Object"
    /\ ~field_type.v.ok
    /\ field_type.v.err.e = "NestedFieldTypeMismatch"
    /\ field_type.v.err.expected = "Object"

(***************************************************************************)
(* C7: Nullable is unwrapped before the shape check: on Nullable(X) the    *)
(* translation succeeds exactly when it succeeds on X with the same        *)
(* selector, and fails with the same error variant otherwise; the match    *)
(* arms for a Nullable definition are never taken.                         *)
(***************************************************************************)
NullableTransparent ==
    FieldTranslated /\ type_definition.td = "Nullable" =>
        LET plain == FieldTypeString_new(type_definition.inner, fields,
                                         Relationships, Config)
        IN  /\ field_type.v.ok <=> plain.ok
            /\ ~field_type.v.ok => field_type.v.err.e = plain.err.e
            /\ IsSome(fields) =>
                MatchScrutinee(type_definition, fields.v)[1] # "Nullable"

\* a selector with subfields was accepted on a nullable object column
NullableWitness ==
    /\ FieldTranslated /\ IsSome(fields)
    /\ type_definition.td = "Nullable"
    /\ Shape(type_definition) = "Object"
    /\ fields.v.nf = "Object"
    /\ Len(fields.v.fields) > 0
    /\ field_type.v.ok

(***************************************************************************)
(* C8: an Object selector whose Column subfield names a column absent from *)
(* the object's field map fails with MissingNestedField carrying the       *)
(* column name and the rendered type of the enclosing object; a subfield   *)
(* whose column is in the field map never gives that error at that level.  *)
(***************************************************************************)
ObjectFieldNames(definition) ==
    LET object == non_nullable(definition)
    IN  {object.fields[i].name : i \in 1..Len(object.fields)}

MissingNestedFieldReported ==
    FieldTranslated /\ IsSome(fields)
        /\ <<Shape(type_definition), fields.v.nf>> = <<"Object", "Object">> =>
        LET m == fields.v.fields
            alone == SubfieldResults(type_definition, m)
        IN  /\ \A i \in 1..Len(m) :
                    /\ m[i].field.f = "Column"
                    /\ m[i].field.column \notin ObjectFieldNames(type_definition)
                    /\ \A j \in 1..(i - 1) : alone[j].ok
                    => field_type.v = Err(MissingNestedField(m[i].field.column,
                                                             RenderedDefinition))
            /\ \A i \in 1..Len(m) :
                    /\ m[i].field.f = "Column"
                    /\ m[i].field.column \in ObjectFieldNames(type_definition)
                    => alone[i] # Err(MissingNestedField(m[i].field.column,
                                                         RenderedDefinition))

\* the second subfield of a selector on a nullable object names a column the
\* object lacks, and the error carries the column, not the alias
MissingNestedFieldWitness ==
    /\ FieldTranslated /\ IsSome(fields)
    /\ type_definition.td = "Nullable"
    /\ <<Shape(type_definition), fields.v.nf>> = <<"Object", "Object">>
    /\ Len(fields.v.fields) = 2
    /\ fields.v.fields[2].field = Column("zz", None)
    /\ fields.v.fields[2].alias # "zz"
    /\ field_type.v = Err(MissingNestedField("zz", RenderedDefinition))

(***************************************************************************)
(* Relationships the request names                                         *)
(***************************************************************************)
\* sub-queries a relationship field may carry
SubQueries == BaseQueries \cup {FailingQuery}

RECURSIVE MissingRelationshipInQuery(_, _)
RECURSIVE MissingRelationshipInSelector(_, _)

\* the rule for the subfields of a selector on a column of the definition
MissingRelationshipInSelector(definition, selector) ==
    LET inner == non_nullable(definition)
    IN  IF selector.nf = "Array"
        THEN inner.td = "Array" =>
                MissingRelationshipInSelector(inner.element_type,
                                              selector.element)
        ELSE inner.td = "Object" =>
            \A i \in 1..Len(selector.fields) :
                LET alias == selector.fields[i].alias
                    field == selector.fields[i].field
                IN  IF field.f = "Relationship"
                    THEN IF field.relationship \in DOMAIN Relationships
                         THEN MissingRelationshipInQuery(
                                Relationships[field.relationship].target_collection,
                                field.query)
                         ELSE \A q \in SubQueries \cup {field.query} :
                                FieldAlone(definition, NestedObject(
                                    <<FieldEntry(alias,
                                        Relationship(field.relationship, q))>>))
                                = Err(MissingRelationship(field.relationship))
                    ELSE LET found == IndexOfName(inner.fields, field.column, 1)
                         IN  found # 0 /\ IsSome(field.fields) =>
                                MissingRelationshipInSelector(
                                    inner.fields[found].def, field.fields.v)

\* the rule for the fields of a query on a collection
MissingRelationshipInQuery(table, q) ==
    IsSome(q.fields) =>
        \A i \in 1..Len(q.fields.v) :
            LET alias == q.fields.v[i].alias
                field == q.fields.v[i].field
            IN  IF field.f = "Relationship"
                THEN IF field.relationship \in DOMAIN Relationships
                     THEN MissingRelationshipInQuery(
                            Relationships[field.relationship].target_collection,
                            field.query)
                     ELSE \A sub \in SubQueries \cup {field.query} :
                            TranslateAlone(table, Query(Some(
                                <<FieldEntry(alias,
                                    Relationship(field.relationship, sub))>>),
                                None))
                            = Err(MissingRelationship(field.relationship))
                ELSE
                    LET return_type == get_return_type(table, Config)
                        column_type ==
                            IF return_type.ok
                            THEN get_column(field.column, return_type.val, Config)
                            ELSE return_type
                    IN  column_type.ok /\ IsSome(field.fields) =>
                            MissingRelationshipInSelector(
                                from_table_column(column_type.val, field.column,
                                    return_type.val, Config.namespace_separator),
                                field.fields.v)

(***************************************************************************)
(* C9: a relationship field whose name is not in the relationships map     *)
(* fails with MissingRelationship carrying that name, as a direct row      *)
(* field and nested in an Object selector, whatever its sub-query is: the  *)
(* sub-query is not examined first. When it is the first failing item, the *)
(* whole translation fails with that error.                                *)
(***************************************************************************)
MissingRelationshipReported ==
    Translated =>
        /\ MissingRelationshipInQuery(table_alias, query)
        /\ IsSome(query.fields) =>
            \A i \in 1..Len(query.fields.v) :
                LET field == query.fields.v[i].field
                IN  /\ field.f = "Relationship"
                    /\ field.relationship \notin DOMAIN Relationships
                    /\ \A j \in 1..(i - 1) : ItemResults(table_alias, query)[j].ok
                    => rowset.v = Err(MissingRelationship(field.relationship))

\* the translation failed on an unknown relationship inside an Object
\* selector, whose sub-query fails as well when translated on the collection
MissingRelationshipWitness ==
    /\ Translated
    /\ IsSome(query.fields)
    /\ Len(query.fields.v) > 0
    /\ query.fields.v[1].field =
        Column("loc", Some(NestedObject(
            <<FieldEntry("a", Column("lat", None)),
              FieldEntry("b", Relationship("nope", FailingQuery))>>)))
    /\ ~TranslateAlone(table_alias, FailingQuery).ok
    /\ "nope" \notin DOMAIN Relationships
    /\ rowset.v = Err(MissingRelationship("nope"))

(***************************************************************************)
(* Aggregate functions of a column                                         *)
(***************************************************************************)
\* the column an aggregate reads, resolved on the collection
AggregateColumn(table, aggregate) ==
    LET return_type == get_return_type(table, Config)
    IN  IF ~return_type.ok THEN return_type
        ELSE LET column_type == get_column(aggregate.column, return_type.val,
                                           Config)
             IN  IF ~column_type.ok THEN column_type
                 ELSE Ok([raw |-> column_type.val,
                          def |-> from_table_column(column_type.val,
                                    aggregate.column, return_type.val,
                                    Config.namespace_separator)])

\* the result types the column's type lists for the named function
ListedResultTypes(definition, function) ==
    LET parsed == AggregateFunctionFromStr(function)
        functions == aggregate_functions(definition)
    IN  IF ~parsed.ok THEN {}
        ELSE {functions[k][2] : k \in {n \in 1..Len(functions) :
                                        functions[n][1] = parsed.val}}

\* the aggregates of the query, each translated as the only item
AggregateResults(table, q) ==
    [i \in 1..Len(q.aggregates.v) |->
        TranslateAlone(table, Query(None, Some(<<q.aggregates.v[i]>>)))]

(***************************************************************************)
(* C10: a SingleColumn aggregate on a resolvable column fails with         *)
(* UnknownAggregateFunction (table alias, column, the column's raw type,   *)
(* function name) when the name does not parse as a known function and     *)
(* when the parsed function has no entry for the column's type; when the   *)
(* function is defined its result type is the one listed for the column's  *)
(* type.                                                                   *)
(***************************************************************************)
UnknownAggregateFunctionReported ==
    Translated /\ IsSome(query.aggregates) =>
        LET g == query.aggregates.v
            alone == AggregateResults(table_alias, query)
            rows_ok == TranslateAlone(table_alias,
                                      Query(query.fields, None)).ok
        IN  \A i \in 1..Len(g) :
                LET aggregate == g[i].aggregate
                    column == AggregateColumn(table_alias, aggregate)
                IN  aggregate.agg = "SingleColumn" /\ column.ok =>
                    LET listed == ListedResultTypes(column.val.def,
                                                    aggregate.function)
                        unknown == Err(UnknownAggregateFunction(table_alias,
                                        aggregate.column, column.val.raw,
                                        aggregate.function))
                    IN  IF listed = {}
                        THEN /\ alone[i] = unknown
                             /\ rows_ok /\ (\A j \in 1..(i - 1) : alone[j].ok)
                                => rowset.v = unknown
                        ELSE /\ alone[i].ok
                             /\ rowset.v.ok =>
                                    rowset.v.val.aggregates.v.aggregates[i].t
                                        \in listed
                             /\ Rendered =>
                                    AggregatesCastOf(query, cast.v).members[i].type
                                        \in listed

\* the sum of a String column was refused: sum parses, String lists no sum
UnknownAggregateFunctionWitness ==
    /\ Translated
    /\ IsSome(query.aggregates)
    /\ table_alias = "users"
    /\ \E i \in 1..Len(query.aggregates.v) :
        LET aggregate == query.aggregates.v[i].aggregate
        IN  /\ aggregate.agg = "SingleColumn"
            /\ AggregateFunctionFromStr(aggregate.function).ok
            /\ AggregateColumn(table_alias, aggregate).ok
            /\ rowset.v = Err(UnknownAggregateFunction("users",
                                aggregate.column, String, aggregate.function))

(***************************************************************************)
(* C11: star-count and column-count aggregates resolve to UInt32 and never *)
(* fail, for every collection alias and every column name, the ones the    *)
(* schema does not have included: no lookup is made for them.              *)
(***************************************************************************)
IsCount(aggregate) == aggregate.agg \in {"StarCount", "ColumnCount"}

CountsAreUInt32 ==
    Translated /\ IsSome(query.aggregates) =>
        LET g == query.aggregates.v
            alone == AggregateResults(table_alias, query)
        IN  /\ \A i \in 1..Len(g) :
                IsCount(g[i].aggregate) =>
                    /\ alone[i] = Ok(RowsetTypeString(None,
                            Some(AggregatesTypeString(
                                <<Typed(g[i].alias, UInt32)>>))))
                    /\ rowset.v.ok =>
                        rowset.v.val.aggregates.v.aggregates[i].t = UInt32
                    /\ Rendered =>
                        AggregatesCastOf(query, cast.v).members[i].type = UInt32
            /\ ~IsSome(query.fields)
                    /\ (\A i \in 1..Len(g) : IsCount(g[i].aggregate))
                    => rowset.v.ok

\* a star count and a count of a column that does not exist, on a collection
\* the configuration does not know, were rendered
CountsWitness ==
    /\ Rendered
    /\ table_alias = "nowhere"
    /\ ~get_return_type(table_alias, Config).ok
    /\ query = Query(None, Some(<<AggregateEntry("b", ColumnCount("nope")),
                                  AggregateEntry("a", StarCount)>>))
    /\ DataTypeToString(cast.v)
        = "Tuple(aggregates Tuple(\"b\" UInt32, \"a\" UInt32))"

(***************************************************************************)
(* Resolving a column of a collection                                      *)
(***************************************************************************)
\* what the three lookups must give for a column of a collection: the error
\* of the first failing one, else the return type and the column's type
Resolved(table, column) ==
    IF table \notin DOMAIN Config.tables \cup DOMAIN Config.queries
    THEN Err(UnknownTable(table))
    ELSE
    LET declared == IF table \in DOMAIN Config.tables
                    THEN Config.tables[table].return_type
                    ELSE Config.queries[table].return_type
    IN  IF declared \notin DOMAIN Config.table_types
        THEN Err(UnknownTableType(declared))
        ELSE IF column \notin DOMAIN Config.table_types[declared].columns
        THEN Err(UnknownColumn(declared, column))
        ELSE Ok([return_type |-> declared,
                 column_type |-> Config.table_types[declared].columns[column]])

\* the result of the field builder inside a rowset of one row field
AsOnlyField(alias, built) ==
    IF built.ok
    THEN Ok(RowsetTypeString(Some(RowTypeString(<<Typed(alias, built.val)>>)),
                             None))
    ELSE built

\* the fields of the query, each translated as the only item
FieldResults(table, q) ==
    [i \in 1..Len(q.fields.v) |->
        TranslateAlone(table, Query(Some(<<q.fields.v[i]>>), None))]

LookupErrors == {"UnknownTable", "UnknownTableType", "UnknownColumn"}

\* the rule for the Column fields and single-column aggregates of a query
LookupOrderIn(table, q) ==
    /\ IsSome(q.fields) =>
        \A i \in 1..Len(q.fields.v) :
            LET field == q.fields.v[i].field
                found == Resolved(table, field.column)
            IN  field.f = "Column" =>
                    FieldResults(table, q)[i] =
                        IF ~found.ok THEN found
                        ELSE AsOnlyField(q.fields.v[i].alias,
                                FieldTypeString_new(
                                    from_table_column(found.val.column_type,
                                        field.column, found.val.return_type,
                                        Config.namespace_separator),
                                    field.fields, Relationships, Config))
    /\ IsSome(q.aggregates) =>
        \A i \in 1..Len(q.aggregates.v) :
            LET aggregate == q.aggregates.v[i].aggregate
                found == Resolved(table, aggregate.column)
                alone == AggregateResults(table, q)[i]
            IN  aggregate.agg = "SingleColumn" =>
                    IF ~found.ok THEN alone = found
                    ELSE alone.ok \/ alone.err.e \notin LookupErrors

(***************************************************************************)
(* C12: resolving a Column field, and the column of a single-column        *)
(* aggregate, looks the collection alias up in the tables, then in the     *)
(* parameterized queries, else UnknownTable; then the declared return type *)
(* in the table types, else UnknownTableType; then the column in the       *)
(* type's columns, else UnknownColumn. Only when the three succeed is the  *)
(* type definition derived and the field builder called.                   *)
(***************************************************************************)
LookupOrder ==
    Translated =>
        /\ LookupOrderIn(table_alias, query)
        /\ IsSome(query.fields) /\ Len(query.fields.v) > 0
            /\ query.fields.v[1].field.f = "Column"
            /\ ~Resolved(table_alias, query.fields.v[1].field.column).ok
            => rowset.v = Resolved(table_alias, query.fields.v[1].field.column)

\* a table whose declared return type has no entry in the table types: the
\* translation of a Column field stopped at the second lookup
LookupOrderWitness ==
    /\ Translated
    /\ table_alias = "ghost"
    /\ table_alias \in DOMAIN Config.tables
    /\ IsSome(query.fields) /\ Len(query.fields.v) > 0
    /\ query.fields.v[1].field.f = "Column"
    /\ rowset.v = Err(UnknownTableType("ghost_type"))

(***************************************************************************)
(* Sub-queries of relationship fields                                      *)
(***************************************************************************)
\* the translation of a relationship's sub-query on its target collection
OnTarget(field) ==
    TranslateAlone(Relationships[field.relationship].target_collection,
                   field.query)

\* the fragment of a relationship field from the translation of its sub-query
AsRelationship(sub) ==
    IF sub.ok THEN Ok(FtsRelationship(sub.val)) ELSE sub

\* the first item of a sub-query is a Column field or a single-column
\* aggregate whose column does not resolve on the collection
FirstItemUnresolved(table, q) ==
    IF IsSome(q.fields) /\ Len(q.fields.v) > 0
    THEN /\ q.fields.v[1].field.f = "Column"
         /\ ~Resolved(table, q.fields.v[1].field.column).ok
    ELSE /\ IsSome(q.aggregates) /\ Len(q.aggregates.v) > 0
         /\ q.aggregates.v[1].aggregate.agg = "SingleColumn"
         /\ ~Resolved(table, q.aggregates.v[1].aggregate.column).ok

FirstItemColumn(q) ==
    IF IsSome(q.fields) /\ Len(q.fields.v) > 0
    THEN q.fields.v[1].field.column
    ELSE q.aggregates.v[1].aggregate.column

(***************************************************************************)
(* C13: the sub-query of a Relationship field is translated against the    *)
(* relationship's target collection: its Column fields and single-column   *)
(* aggregates resolve in the target's return type, not the parent's, and   *)
(* the cast type of the field is the rowset envelope of the sub-query.     *)
(***************************************************************************)
RelationshipTarget ==
    Translated /\ IsSome(query.fields) =>
        \A i \in 1..Len(query.fields.v) :
            LET alias == query.fields.v[i].alias
                field == query.fields.v[i].field
            IN  field.f = "Relationship"
                    /\ field.relationship \in DOMAIN Relationships =>
                LET target == Relationships[field.relationship].target_collection
                    sub == OnTarget(field)
                IN  /\ FieldResults(table_alias, query)[i]
                            = AsOnlyField(alias, AsRelationship(sub))
                    /\ FirstItemUnresolved(target, field.query) =>
                            FieldResults(table_alias, query)[i]
                                = Resolved(target, FirstItemColumn(field.query))
                    /\ Rendered =>
                        /\ sub.ok
                        /\ MemberType(RowsCastOf(query, cast.v), i)
                            = RowsetTypeString_into_cast_type(sub.val)

\* a relationship from events to users whose sub-query reads email, a column
\* users has and events lacks, and id, which is UInt32 in users and UInt64
\* in events
RelationshipTargetWitness ==
    /\ Rendered
    /\ table_alias = "events"
    /\ IsSome(query.fields) /\ Len(query.fields.v) > 0
    /\ query.fields.v[1].field.f = "Relationship"
    /\ query.fields.v[1].field.relationship = "owner"
    /\ Relationships["owner"].target_collection = "users"
    /\ ~Resolved("events", "email").ok
    /\ DataTypeToString(MemberType(RowsCastOf(query, cast.v), 1))
        = "Tuple(rows Array(Tuple(\"b\" String, \"a\" UInt32)), aggregates Tuple(\"b\" UInt64, \"a\" UInt32))"

(***************************************************************************)
(* Identifiers of the rendered type                                        *)
(***************************************************************************)
EnvelopeKeys == {Some(Unquoted("rows")), Some(Unquoted("aggregates"))}

\* every tuple member of the type, at any depth, is named by a double-quoted
\* identifier or by an envelope key
RECURSIVE OnlyRequestIdentifiers(_)
OnlyRequestIdentifiers(t) ==
    CASE t.dt = "Tuple" ->
            \A i \in 1..Len(t.members) :
                /\ \/ t.members[i].ident \in EnvelopeKeys
                   \/ /\ IsSome(t.members[i].ident)
                      /\ t.members[i].ident.v
                            = DoubleQuoted(t.members[i].ident.v.name)
                /\ OnlyRequestIdentifiers(t.members[i].type)
      [] t.dt \in {"Array", "Nullable"} -> OnlyRequestIdentifiers(t.inner)
      [] OTHER -> TRUE

\* C14 as stated: in every produced cast type the members named from request
\* aliases are double-quoted, the envelope members unquoted, and no other
\* identifier and no unnamed member occurs
QuotingEverywhere ==
    Rendered => OnlyRequestIdentifiers(cast.v)

(***************************************************************************)
(* C14, amended: every tuple the translation builds for a mapping of the   *)
(* request (row fields, subfields of an Object selector, aggregates) names *)
(* its members by the double-quoted aliases, and every envelope names its  *)
(* members by the unquoted rows and aggregates. The type of a leaf is the  *)
(* column's declared type, with the identifiers the schema gives it.       *)
(***************************************************************************)
QuotingAtSites ==
    \A s \in Sites :
        s.cast # EmptyMarker =>
            /\ s.cast.dt = "Tuple"
            /\ s.kind = "rowset" =>
                \A i \in 1..Len(s.cast.members) :
                    s.cast.members[i].ident \in EnvelopeKeys
            /\ s.kind \in {"row", "object", "aggregates"} =>
                /\ Len(s.cast.members) = Len(s.aliases)
                /\ \A i \in 1..Len(s.cast.members) :
                    s.cast.members[i].ident = Some(DoubleQuoted(s.aliases[i]))

\* a rendered request with a row field, an aggregate, and a leaf whose column
\* type is a tuple named by the schema
QuotingWitness ==
    /\ Rendered
    /\ query.fields = Some(<<FieldEntry("a", Column("loc", None))>>)
    /\ IsSome(query.aggregates) /\ Len(query.aggregates.v) = 1
    /\ DataTypeToString(cast.v) =
        "Tuple(rows Array(Tuple(\"a\" Tuple(lat Float64, lon Float64))), aggregates Tuple(\"a\" UInt32))"

(***************************************************************************)
(* Requests that select only fields                                        *)
(***************************************************************************)
FieldsOnly == IsSome(query.fields) /\ ~IsSome(query.aggregates)

\* the rendering of the row type of the translated request
RowTypeText ==
    DataTypeToString(RowTypeString_into_cast_type(rowset.v.val.rows.v))

\* the request of the scenario, on the collection events
Scenario == table_alias = "events" /\ query = ScenarioQuery

\* C15 as stated: a request of fields only renders as Tuple("rows"
\* Array(<row type>)), the key a double-quoted identifier; the scenario
\* renders as Tuple("rows" Array(Tuple("id" UInt64, "tags" Array(String))))
RowsKeyDoubleQuoted ==
    Rendered /\ FieldsOnly =>
        /\ DataTypeToString(cast.v)
            = "Tuple(\"rows\" Array(" \o RowTypeText \o "))"
        /\ Scenario => DataTypeToString(cast.v) =
            "Tuple(\"rows\" Array(Tuple(\"id\" UInt64, \"tags\" Array(String))))"

(***************************************************************************)
(* C15, amended: a request of fields only renders as exactly               *)
(* Tuple(rows Array(<row type>)), with the envelope key rows unquoted and  *)
(* no aggregates member; the scenario renders as                           *)
(* Tuple(rows Array(Tuple("id" UInt64, "tags" Array(String)))).            *)
(***************************************************************************)
RowsOnlyEnvelope ==
    Rendered /\ FieldsOnly =>
        /\ cast.v.dt = "Tuple"
        /\ Len(cast.v.members) = 1
        /\ cast.v.members[1].ident = Some(Unquoted("rows"))
        /\ DataTypeToString(cast.v) = "Tuple(rows Array(" \o RowTypeText \o "))"
        /\ Scenario => DataTypeToString(cast.v) =
            "Tuple(rows Array(Tuple(\"id\" UInt64, \"tags\" Array(String))))"

\* the scenario was rendered
RowsOnlyWitness ==
    /\ Rendered /\ FieldsOnly /\ Scenario
    /\ Config.table_types["events"].columns["id"] = UInt64
    /\ Config.table_types["events"].columns["tags"] = ArrayT(String)
    /\ DataTypeToString(cast.v) =
        "Tuple(rows Array(Tuple(\"id\" UInt64, \"tags\" Array(String))))"

(***************************************************************************)
(* The depth of a request, in nested calls                                 *)
(***************************************************************************)
Max(S) == IF S = {} THEN 0 ELSE CHOOSE n \in S : \A k \in S : k <= n

RECURSIVE QueryHeight(_)
RECURSIVE MappingHeight(_)
RECURSIVE SelectorHeight(_)

\* the nested calls a query needs, whatever the schema is: one for the
\* rowset, below it the row or the aggregates
QueryHeight(q) ==
    1 + Max({IF IsSome(q.fields) THEN 1 + MappingHeight(q.fields.v) ELSE 0,
             IF IsSome(q.aggregates) THEN 1 ELSE 0})

\* the nested calls below an iteration over the entries of a mapping
MappingHeight(m) ==
    Max({IF m[i].field.f = "Relationship"
         THEN QueryHeight(m[i].field.query)
         ELSE SelectorHeight(m[i].field.fields) : i \in 1..Len(m)})

\* the nested calls of a column with an optional selector
SelectorHeight(selector) ==
    IF ~IsSome(selector) THEN 1
    ELSE IF selector.v.nf = "Array"
    THEN 1 + SelectorHeight(Some(selector.v.element))
    ELSE 1 + MappingHeight(selector.v.fields)

\* the nested calls a pending call still needs, itself included
CallHeight(call) ==
    CASE call.fn = "Rowset" -> QueryHeight(call.query)
      [] call.fn = "Row" -> 1 + MappingHeight(call.row_fields)
      [] call.fn = "Aggregates" -> 1
      [] call.fn = "Field" -> SelectorHeight(call.selector)
      [] call.fn = "Subfields" -> 1 + MappingHeight(call.subfields)

\* no pending call is nested deeper than the request is
DepthBounded ==
    \A i \in 1..Len(stack) :
        /\ stack[i].level + CallHeight(stack[i]) - 1 <= QueryHeight(query)
        /\ stack[i].level <= MaxLevel

WalkDone == Len(stack) = 0 /\ IsSome(outcome)

\* the walk ends as the translation does: Ok, or the same error
WalkAgrees ==
    WalkDone =>
        LET whole == TranslateAlone(table_alias, query)
        IN  IF whole.ok THEN outcome.v = Ok("done") ELSE outcome.v = whole

(***************************************************************************)
(* C16: the translation terminates for every finite request, with cycles   *)
(* in the relationship map: each call consumes one level of the request,   *)
(* so no call is nested deeper than the request is, and the walk returns   *)
(* with the outcome of the translation.                                    *)
(***************************************************************************)
Termination ==
    /\ [](DepthBounded /\ WalkAgrees)
    /\ <>WalkDone

\* a chain of relationship fields along the self-referencing relationship,
\* deeper than the relationship map has collections, was walked to the end
TerminationWitness ==
    /\ WalkDone
    /\ outcome.v = Ok("done")
    /\ table_alias = "events"
    /\ Relationships["self"].target_collection = "events"
    /\ query = DeepQuery(MaxDepth + 1)

Computed(run) == IsSome(run) /\ IsSome(run.v.config)

\* the column names and types of an introspected table
IntrospectedColumns(table) ==
    [n \in {table.columns[k].column_name : k \in 1..Len(table.columns)} |->
        table.columns[CHOOSE k \in 1..Len(table.columns) :
            /\ table.columns[k].column_name = n
            /\ \A j \in (k + 1)..Len(table.columns) :
                table.columns[j].column_name # n].data_type]

\* the aliases under which the old configuration holds a table
OldAliases(old_config, table) ==
    IF IsSome(old_config)
    THEN {k \in DOMAIN old_config.v.tables :
            /\ old_config.v.tables[k].name = table.table_name
            /\ old_config.v.tables[k].schema = table.table_schema}
    ELSE {}

\* the table an old entry describes still exists in the database and has
\* there the columns given
StillReturns(entry, introspection, columns) ==
    \E j \in 1..Len(introspection) :
        /\ introspection[j].table_name = entry.name
        /\ introspection[j].table_schema = entry.schema
        /\ IntrospectedColumns(introspection[j]) = columns

\* the reference of an old entry to the table under alias target is one to keep
ReferenceStands(old_config, target, introspection, columns) ==
    /\ target \in DOMAIN old_config.v.tables
    /\ old_config.v.tables[target].return_type.kind = "definition"
    /\ StillReturns(old_config.v.tables[target], introspection, columns)

\* the return type run gave the i-th introspected table is what is said of a
\* table whose old entry, under old_alias, refers to another table
TableReferenceSettled(run, i, old_alias) ==
    run.entries[i][2].return_type =
        IF ReferenceStands(run.old_config,
                run.old_config.v.tables[old_alias].return_type.table_name,
                run.introspection,
                IntrospectedColumns(run.introspection[i]))
        THEN TableReference(
                run.old_config.v.tables[old_alias].return_type.table_name)
        ELSE Definition(IntrospectedColumns(run.introspection[i]))

\* C18: a table whose old entry refers to another table keeps the reference
\* exactly when the referenced table has a return type definition in the old
\* configuration, still exists in the new introspection and has there the
\* columns this table has now; otherwise its return type is the definition
\* of its own introspected columns.
TableReferenceKept ==
    Computed(last) =>
        \A i \in 1..Len(last.v.introspection) :
            \A k \in OldAliases(last.v.old_config, last.v.introspection[i]) :
                last.v.old_config.v.tables[k].return_type.kind
                    = "table_reference"
                => TableReferenceSettled(last.v, i, k)

\* the default alias of a table
DefaultAlias(table) ==
    IF table.table_schema = "default" THEN table.table_name
    ELSE table.table_schema \o "_" \o table.table_name

\* the entry run made for the i-th introspected table describes that table
\* under the alias it had, or under the default alias if it had none
AliasSettled(run, i) ==
    /\ run.entries[i][2].name = run.introspection[i].table_name
    /\ run.entries[i][2].schema = run.introspection[i].table_schema
    /\ IF OldAliases(run.old_config, run.introspection[i]) = {}
       THEN run.entries[i][1] = DefaultAlias(run.introspection[i])
       ELSE run.entries[i][1]
                \in OldAliases(run.old_config, run.introspection[i])

\* no two entries of the run have the same alias
DistinctAliases(run) ==
    \A i, j \in 1..Len(run.entries) :
        run.entries[i][1] = run.entries[j][1] => i = j

AllDefinitions(config) ==
    \A k \in DOMAIN config.tables :
        config.tables[k].return_type.kind = "definition"

\* the files are written exactly when there was no old configuration or the
\* new one differs from it
WrittenIffChanged ==
    /\ Computed(last) =>
        /\ last.v.wrote <=>
            (~IsSome(last.v.old_config)
             \/ last.v.old_config.v # last.v.config.v)
        /\ last.v.wrote =>
            /\ config_file = Some(to_string_pretty(last.v.config.v))
            /\ schema_file # None
    /\ IsSome(last) /\ ~IsSome(last.v.config) => ~last.v.wrote

\* a second run right after a run over the same database computes what the
\* first computed and writes nothing, when all return types are definitions
SecondRunIdle ==
    /\ Computed(before)
    /\ Computed(last)
    /\ before.v.introspection = last.v.introspection
    /\ AllDefinitions(before.v.config.v)
    => /\ last.v.config.v = before.v.config.v
       /\ ~last.v.wrote

\* C20: update_tables_config writes the configuration file and the schema
\* file iff there was no old configuration file or the configuration it
\* computed differs from the old one; and a second run right after, over
\* the same introspection with only return type definitions, computes the
\* configuration the first run wrote and writes nothing.
UpdateIdempotent == WrittenIffChanged /\ SecondRunIdle

=============================================================================
